---- MODULE Spec2Model ----
(***************************************************************************)
(* Model of the lcsc-linker schematic parser and patcher                   *)
(* (src/kicad_parser.py): the text buffer, the tracked Component records,  *)
(* parse() and update_component(); of the manual entry of an identifier    *)
(* at the command line (src/lcsc_linker.py) and in the dialog              *)
(* (src/lcsc_linker_gui.py); and of the batch script src/fix_lcsc.py.      *)
(*                                                                         *)
(* The buffer is a sequence of code units.  A code unit is either one      *)
(* structural character ( ) " \ newline tab space, or one indivisible      *)
(* literal (a keyword such as symbol, or a piece of a name or value).      *)
(* Offsets are 0-based, as in the source; s[a:b] is Slice(s, a, b).        *)
(***************************************************************************)
EXTENDS Integers, Sequences, FiniteSets, TLC

(***************************************************************************)
(* Bounds of the model.                                                    *)
(***************************************************************************)
MaxBlocks == 3
MaxUpdates == 2

(***************************************************************************)
(* Strings.                                                                *)
(***************************************************************************)
Q == "\""
BS == "\\"
NL == "\n"
TAB == "\t"
SP == " "
EOF == "<eof>"

\* s[p] with a 0-based offset; EOF outside the string
Ch(s, p) == IF p >= 0 /\ p < Len(s) THEN s[p + 1] ELSE EOF

\* s[a:b]
Slice(s, a, b) == SubSeq(s, a + 1, b)

\* \s
IsWs(c) == c \in {SP, TAB, NL}

\* the least i in lo..hi with P(i), or hi + 1 (for lo <= hi + 1)
FirstOr(lo, hi, P(_)) ==
    CHOOSE i \in lo..(hi + 1) :
        (i = hi + 1 \/ P(i)) /\ \A j \in lo..(i - 1) : ~P(j)

\* the greatest i in lo..hi with P(i), or lo - 1 (for lo <= hi + 1)
LastOr(lo, hi, P(_)) ==
    CHOOSE i \in (lo - 1)..hi :
        (i = lo - 1 \/ P(i)) /\ \A j \in (i + 1)..hi : ~P(j)

NoneAt(r, none) == IF r = none THEN -1 ELSE r

\* the least i in lo..hi with P(i), or -1
First(lo, hi, P(_)) ==
    IF lo > hi THEN -1 ELSE NoneAt(FirstOr(lo, hi, P), hi + 1)

\* str.find(c, p): the offset of the first c at or after p, or -1
Find(s, c, p) == First(p, Len(s) - 1, LAMBDA i : Ch(s, i) = c)

\* str.rfind(c)
RFind(s, c) ==
    IF s = <<>> THEN -1
    ELSE NoneAt(LastOr(0, Len(s) - 1, LAMBDA i : Ch(s, i) = c), -1)

\* re.search, from offset pos on, for a pattern that begins with the literal
\* c and whose match starting at i ends at Match(i): the offset of the
\* first match, or -1
Search(s, pos, c, Match(_)) ==
    First(pos, Len(s) - 1, LAMBDA i : Ch(s, i) = c /\ Match(i) # -1)

\* the offset just after the whitespace run that starts at p <= Len(s)
WsEnd(s, p) == FirstOr(p, Len(s) - 1, LAMBDA i : ~IsWs(Ch(s, i)))

(***************************************************************************)
(* The pieces of a regular expression.  Each takes the offset p the match  *)
(* has reached (-1: the match has failed) and gives the offset after the   *)
(* piece.  None of the expressions of the source can match in two ways,    *)
(* but for \s+[^)]+ (see AtClose), so greedy matching is the longest run.  *)
(***************************************************************************)
\* the literal c
Lit(s, p, c) == IF p # -1 /\ Ch(s, p) = c THEN p + 1 ELSE -1

\* \s+
Ws1(s, p) == IF p # -1 /\ IsWs(Ch(s, p)) THEN WsEnd(s, p) ELSE -1

\* \s*
Ws0(s, p) == IF p # -1 THEN WsEnd(s, p) ELSE -1

\* \s
WsOne(s, p) == IF p # -1 /\ IsWs(Ch(s, p)) THEN p + 1 ELSE -1

\* [^c]* before a c: the offset of that c
Until(s, p, c) == IF p # -1 THEN Find(s, c, p) ELSE -1

\* [^c]+ before a c: the offset of that c
Until1(s, p, c) == IF p # -1 /\ Ch(s, p) # c THEN Find(s, c, p) ELSE -1

\* the offset after the closing parenthesis at c, if c is at least min
CloseAt(c, min) == IF c >= min THEN c + 1 ELSE -1

\* \s+[^)]+\) from offset a on: a white space, then at least one more
\* character that is no closing parenthesis, up to the first one
AtClose(s, a) ==
    IF a # -1 /\ IsWs(Ch(s, a)) THEN CloseAt(Find(s, ")", a + 1), a + 2) ELSE -1

\* the group of \s+([^)]+)\) matched from offset a on: what follows the
\* white space run ending at w, up to the parenthesis at c; when the run
\* reaches c, \s+ gives its last character back
CoordsGroup(s, w, c) == IF w < c THEN Slice(s, w, c) ELSE Slice(s, c - 1, c)

(***************************************************************************)
(* The regular expressions of kicad_parser.py, each as the end of the      *)
(* match that starts at offset p (-1: no match at p), and its groups.      *)
(***************************************************************************)

\* \(symbol\s+
SymbolOpen(s, p) == Ws1(s, Lit(s, Lit(s, p, "("), "symbol"))

\* \(lib_id\s+" : the offset where group 1 starts
LibIdOpen(s, p) == Lit(s, Ws1(s, Lit(s, Lit(s, p, "("), "lib_id")), Q)

\* \(lib_id\s+"([^"]+)"\)
LibIdMatch(s, p) == Lit(s, Lit(s, Until1(s, LibIdOpen(s, p), Q), Q), ")")

LibIdGroup(s, p) == Slice(s, LibIdOpen(s, p), Until1(s, LibIdOpen(s, p), Q))

\* \(symbol\s+\(lib_id\s+"([^"]+)"\)
SymbolMatch(s, p) == LibIdMatch(s, SymbolOpen(s, p))

\* re.search(pattern, content[pos:]): offset of the first opener at or after pos
SearchSymbol(s, pos) ==
    Search(s, pos, "(", LAMBDA p : SymbolMatch(s, p))

\* \(property\s+" : the offset where the name starts
PropOpen(s, p) == Lit(s, Ws1(s, Lit(s, Lit(s, p, "("), "property")), Q)

\* \(property\s+"([^"]+) : the offset of the quote that ends group 1
PropNameEnd(s, p) == Until1(s, PropOpen(s, p), Q)

\* \(property\s+"([^"]+)"\s+" : the offset where group 2 starts
PropValueOpen(s, p) == Lit(s, Ws1(s, Lit(s, PropNameEnd(s, p), Q)), Q)

\* ... "([^"]*) : the offset of the quote that ends group 2
PropValueEnd(s, p) == Until(s, PropValueOpen(s, p), Q)

\* \(property\s+"([^"]+)"\s+"([^"]*)"\s*\(at\s+[^)]+\)
PropMatch(s, p) ==
    AtClose(s, Lit(s, Lit(s, Ws0(s, Lit(s, PropValueEnd(s, p), Q)), "("), "at"))

PropName(s, p) == Slice(s, PropOpen(s, p), PropNameEnd(s, p))

PropValue(s, p) == Slice(s, PropValueOpen(s, p), PropValueEnd(s, p))

\* \(property\s+"Reference"[^(]*\(at : the offset after at
RefAtOpen(s, p) ==
    Lit(s, Lit(s, Until(s, Lit(s, Lit(s, PropOpen(s, p), "Reference"), Q), "("),
               "("), "at")

\* \(property\s+"Reference"[^(]*\(at\s+([^)]+)\)
RefAtMatch(s, p) == AtClose(s, RefAtOpen(s, p))

RefAtGroup(s, p) ==
    CoordsGroup(s, WsEnd(s, RefAtOpen(s, p)), Find(s, ")", RefAtOpen(s, p) + 1))

\* \n(\s*)\(pin\s+"
PinMatch(s, p) ==
    Lit(s, Ws1(s, Lit(s, Lit(s, Ws0(s, Lit(s, p, NL)), "("), "pin")), Q)

\* \n(\s*)\(instances\s
InstancesMatch(s, p) ==
    WsOne(s, Lit(s, Lit(s, Ws0(s, Lit(s, p, NL)), "("), "instances"))

\* group 1 of the two, for a match that starts at p
IndentGroup(s, p) == Slice(s, p + 1, WsEnd(s, p + 1))

\* (\(property\s+"{prop_name}"\s+") : the offset where group 1 ends
ExistingOpen(s, prop_name, p) ==
    Lit(s, Ws1(s, Lit(s, Lit(s, PropOpen(s, p), prop_name), Q)), Q)

\* (\(property\s+"{prop_name}"\s+")[^"]*(")
ExistingMatch(s, prop_name, p) ==
    Lit(s, Until(s, ExistingOpen(s, prop_name, p), Q), Q)

(***************************************************************************)
(* KicadSchParser._find_matching_paren                                     *)
(***************************************************************************)
\* one iteration of the while loop, at offset i; found is the value returned
\* (-1 while the loop goes on)
ScanStep(content, i, st) ==
    IF st.found # -1 THEN st
    ELSE IF Ch(content, i) = Q /\ (i = 0 \/ Ch(content, i - 1) # BS)
         THEN [st EXCEPT !.in_string = ~@]
    ELSE IF ~st.in_string /\ Ch(content, i) = "("
         THEN [st EXCEPT !.depth = @ + 1]
    ELSE IF ~st.in_string /\ Ch(content, i) = ")"
         THEN [st EXCEPT !.depth = @ - 1,
                         !.found = IF st.depth - 1 = 0 THEN i ELSE -1]
    ELSE st

\* the iterations for i = a, ..., b - 1 in order (split in halves); none is
\* left once the loop has returned
RECURSIVE ScanRange(_, _, _, _)
RECURSIVE ScanRest(_, _, _, _)
ScanRest(content, a, b, st) ==
    IF st.found # -1 THEN st ELSE ScanRange(content, a, b, st)

ScanRange(content, a, b, st) ==
    IF a >= b THEN st
    ELSE IF b = a + 1 THEN ScanStep(content, a, st)
    ELSE ScanRest(content, (a + b) \div 2, b,
                  ScanRange(content, a, (a + b) \div 2, st))

FindMatchingParen(content, start) ==
    ScanRange(content, start, Len(content),
              [depth |-> 0, in_string |-> FALSE, found |-> -1]).found

(***************************************************************************)
(* KicadSchParser._parse_symbol_block                                      *)
(***************************************************************************)
NoComponent == [none |-> TRUE]

EmptyDict == [n \in {} |-> <<>>]

\* dict.get(key, "")
Get(d, key) == IF key \in DOMAIN d THEN d[key] ELSE <<>>

\* d[key] = value
Put(d, key, value) ==
    [n \in DOMAIN d \cup {key} |-> IF n = key THEN value ELSE d[n]]

\* the re.finditer loop over prop_pattern, from offset pos on; PropertiesAt
\* is its body, for the match found at p
RECURSIVE Properties(_, _, _)
RECURSIVE PropertiesAt(_, _, _)
PropertiesAt(raw, p, acc) ==
    IF p = -1 THEN acc
    ELSE Properties(raw, PropMatch(raw, p),
                    Put(acc, PropName(raw, p), PropValue(raw, p)))

Properties(raw, pos, acc) ==
    PropertiesAt(raw, Search(raw, pos, "(", LAMBDA i : PropMatch(raw, i)),
                 acc)

SymbolComponentAnyLib(raw, start, end, lib_id, properties) ==
    IF Get(properties, <<"Reference">>) = <<>>
       \/ Ch(Get(properties, <<"Reference">>), 0) = "#"
    THEN NoComponent
    ELSE [lib_id |-> lib_id,
          reference |-> Get(properties, <<"Reference">>),
          value |-> Get(properties, <<"Value">>),
          footprint |-> Get(properties, <<"Footprint">>),
          lcsc |-> Get(properties, <<"LCSC">>),
          url |-> Get(properties, <<"URL">>),
          start_pos |-> start,
          end_pos |-> end,
          raw_content |-> raw,
          properties |-> properties]

\* lines 96-128, with the lib_id and the properties found
SymbolComponent(raw, start, end, lib_id, properties) ==
    IF Ch(lib_id, 0) = "power:" \/ \E i \in 1..Len(lib_id) : lib_id[i] = ":PWR_"
    THEN NoComponent
    ELSE IF Get(properties, <<"Reference">>) = <<>>
            \/ Ch(Get(properties, <<"Reference">>), 0) = "#"
    THEN NoComponent
    ELSE [lib_id |-> lib_id,
          reference |-> Get(properties, <<"Reference">>),
          value |-> Get(properties, <<"Value">>),
          footprint |-> Get(properties, <<"Footprint">>),
          lcsc |-> Get(properties, <<"LCSC">>),
          url |-> Get(properties, <<"URL">>),
          start_pos |-> start,
          end_pos |-> end,
          raw_content |-> raw,
          properties |-> properties]

\* lines 91-94, with the offset lp of the lib_id match (-1: none)
SymbolWithLibId(raw, start, end, lp) ==
    IF lp = -1 THEN NoComponent
    ELSE SymbolComponent(raw, start, end, LibIdGroup(raw, lp),
                         Properties(raw, 0, EmptyDict))

ParseSymbolBlock(raw, start, end) ==
    SymbolWithLibId(raw, start, end,
        Search(raw, 0, "(", LAMBDA i : LibIdMatch(raw, i)))

(***************************************************************************)
(* KicadSchParser.parse: the while loop from offset pos on, with the       *)
(* components found so far                                                 *)
(***************************************************************************)
AppendComponentFront(acc, component) ==
    IF component = NoComponent THEN acc ELSE <<component>> \o acc

\* lines 59-60
AppendComponent(acc, component) ==
    IF component = NoComponent THEN acc ELSE Append(acc, component)

RECURSIVE ParseFrom(_, _, _)
RECURSIVE ParseBlock(_, _, _, _)
ParseBlockStop(content, start, end, acc) ==
    IF end = -1 THEN acc
    ELSE ParseFrom(content, end + 1,
             AppendComponent(acc,
                 ParseSymbolBlock(Slice(content, start, end + 1), start, end)))

\* lines 53-62, with the end found for the opener at start
ParseBlock(content, start, end, acc) ==
    IF end = -1 THEN ParseFrom(content, start + 1, acc)
    ELSE ParseFrom(content, end + 1,
             AppendComponent(acc,
                 ParseSymbolBlock(Slice(content, start, end + 1), start, end)))

\* lines 47-52, with the opener found
ParseOpener(content, start, acc) ==
    IF start = -1 THEN acc
    ELSE ParseBlock(content, start, FindMatchingParen(content, start), acc)

ParseFrom(content, pos, acc) ==
    ParseOpener(content, SearchSymbol(content, pos), acc)

ParseAll(content) == ParseFrom(content, 0, <<>>)

(***************************************************************************)
(* KicadSchParser._update_property                                         *)
(***************************************************************************)
Raise == [raise |-> TRUE]

Return(text) == [raise |-> FALSE, text |-> text]

\* Code units that are neither letters nor digits: after a backslash the
\* replacement template keeps them as they are.
Punct == {Q, "(", ")", ".", SP, TAB, NL}

\* re.sub's reading of the replacement template \g<1>{prop_value}\g<2>, from
\* offset i of prop_value on: what replaces the old value and the quote
\* after it.  The template's closing \g<2> gives group 2 (the quote), unless
\* a backslash ending the value has escaped its backslash, which leaves the
\* literal text g<2>.  A backslash before a letter is an escape
\* parse_template rejects (re.error), but for the letters it knows, none of
\* which starts a literal of the values drawn; nor does a digit.
RECURSIVE Template(_, _, _)
Template(v, i, acc) ==
    IF i >= Len(v) THEN Return(acc \o <<Q>>)
    ELSE IF Ch(v, i) # BS THEN Template(v, i + 1, Append(acc, Ch(v, i)))
    ELSE IF i + 1 >= Len(v) THEN Return(acc \o <<BS, "g<2>">>)
    ELSE IF Ch(v, i + 1) = BS THEN Template(v, i + 2, Append(acc, BS))
    ELSE IF Ch(v, i + 1) \in Punct
         THEN Template(v, i + 2, acc \o <<BS, Ch(v, i + 1)>>)
    ELSE Raise

\* re.sub(pattern, repl, raw) from offset pos on: every non-overlapping
\* match, left to right; SubAt is the step for the match found at p
RECURSIVE SubFrom(_, _, _, _)
RECURSIVE SubAt(_, _, _, _, _)
SubAt(raw, prop_name, repl, pos, p) ==
    IF p = -1 THEN Slice(raw, pos, Len(raw))
    ELSE Slice(raw, pos, ExistingOpen(raw, prop_name, p)) \o repl
             \o SubFrom(raw, prop_name, repl, ExistingMatch(raw, prop_name, p))

SubFrom(raw, prop_name, repl, pos) ==
    SubAt(raw, prop_name, repl, pos,
          Search(raw, pos, "(", LAMBDA i : ExistingMatch(raw, prop_name, i)))

\* line 167, with the template read
Substituted(raw, prop_name, t) ==
    IF t.raise THEN Raise ELSE Return(SubFrom(raw, prop_name, t.text, 0))

Effects ==
    <<"(", "effects", SP, "(", "font", SP, "(", "size", SP, "1.27", SP, "1.27",
      ")", ")", SP, "hide", ")">>

\* the f-string of line 189
NewProp(indent, prop_name, prop_value, at_coords) ==
    <<NL>> \o indent \o <<"(", "property", SP, Q, prop_name, Q, SP, Q>>
        \o prop_value \o <<Q, SP, "(", "at", SP>> \o at_coords \o <<")", NL>>
        \o indent \o <<TAB>> \o Effects \o <<NL>> \o indent \o <<")">>

\* InsertionChoice with the tests of lines 178 and 181 in the other order
InsertionChoiceInstancesFirst(raw, pin, ins) ==
    IF ins # -1 THEN [insert_pos |-> ins, indent |-> IndentGroup(raw, ins)]
    ELSE IF pin # -1 THEN [insert_pos |-> pin, indent |-> IndentGroup(raw, pin)]
    ELSE [insert_pos |-> RFind(raw, ")"), indent |-> <<TAB, TAB>>]

\* InsertionChoice with a fallback that appends to the block
InsertionChoiceAppend(raw, pin, ins) ==
    IF pin # -1 THEN [insert_pos |-> pin, indent |-> IndentGroup(raw, pin)]
    ELSE IF ins # -1 THEN [insert_pos |-> ins, indent |-> IndentGroup(raw, ins)]
    ELSE [insert_pos |-> Len(raw), indent |-> <<TAB, TAB>>]

\* lines 178-187, with the offsets of the pin and instances matches
InsertionChoice(raw, pin, ins) ==
    IF pin # -1 THEN [insert_pos |-> pin, indent |-> IndentGroup(raw, pin)]
    ELSE IF ins # -1 THEN [insert_pos |-> ins, indent |-> IndentGroup(raw, ins)]
    ELSE [insert_pos |-> RFind(raw, ")"), indent |-> <<TAB, TAB>>]

\* lines 175-187: where a new property goes, and its indentation
InsertionPoint(raw) ==
    InsertionChoice(raw,
        Search(raw, 0, NL, LAMBDA i : PinMatch(raw, i)),
        Search(raw, 0, NL, LAMBDA i : InstancesMatch(raw, i)))

\* raw[:insert_pos] + new_prop + raw[insert_pos:]; a negative insert_pos
\* counts from the end, as Python slices do
InsertAt(raw, insert_pos, new_prop) ==
    IF insert_pos >= 0
    THEN Slice(raw, 0, insert_pos) \o new_prop \o Slice(raw, insert_pos, Len(raw))
    ELSE Slice(raw, 0, Len(raw) + insert_pos) \o new_prop
             \o Slice(raw, Len(raw) + insert_pos, Len(raw))

\* CoordsAt with the default of line 172 in both cases
CoordsDefault(raw, r) == <<"0", SP, "0", SP, "0">>

\* line 172, with the offset r of the Reference match (-1: none)
CoordsAt(raw, r) ==
    IF r # -1 THEN RefAtGroup(raw, r) ELSE <<"0", SP, "0", SP, "0">>

\* lines 171-172
AtCoords(raw) ==
    CoordsAt(raw, Search(raw, 0, "(", LAMBDA i : RefAtMatch(raw, i)))

\* lines 189-190, with the insertion point
Inserted(raw, prop_name, prop_value, ip) ==
    Return(InsertAt(raw, ip.insert_pos,
                    NewProp(ip.indent, prop_name, prop_value, AtCoords(raw))))

\* the result is Raise (re.error) or Return(the new block)
UpdateProperty(raw, prop_name, prop_value) ==
    IF Search(raw, 0, "(", LAMBDA i : ExistingMatch(raw, prop_name, i)) # -1
    THEN Substituted(raw, prop_name, Template(prop_value, 0, <<>>))
    ELSE Inserted(raw, prop_name, prop_value, InsertionPoint(raw))

(***************************************************************************)
(* KicadSchParser.update_component                                         *)
(***************************************************************************)
\* line 136: the block after the LCSC upsert, or its re.error
UpdateLcsc(raw, lcsc) == UpdateProperty(raw, "LCSC", lcsc)

\* UpdateUrl with the property name of line 136
UpdateUrlAsLcsc(a, url) ==
    IF a.raise THEN Raise ELSE UpdateProperty(a.text, "LCSC", url)

\* line 139, after line 136 gave a: the block after the URL upsert, or the
\* re.error of one of the two
UpdateUrl(a, url) == IF a.raise THEN Raise ELSE UpdateProperty(a.text, "URL", url)

\* Splice with the suffix taken from end_pos instead of end_pos + 1
SpliceFromEnd(content, component, new_raw) ==
    Slice(content, 0, component.start_pos) \o new_raw
        \o Slice(content, component.end_pos, Len(content))

\* lines 142-146
Splice(content, component, new_raw) ==
    Slice(content, 0, component.start_pos) \o new_raw
        \o Slice(content, component.end_pos + 1, Len(content))

\* Shifted with the comparison of line 151 turned round
ShiftedWhenBefore(comp, component, diff) ==
    IF comp.start_pos < component.start_pos
    THEN [comp EXCEPT !.start_pos = @ + diff, !.end_pos = @ + diff]
    ELSE comp

\* Shifted with >= for the > of line 151
ShiftedFromTarget(comp, component, diff) ==
    IF comp.start_pos >= component.start_pos
    THEN [comp EXCEPT !.start_pos = @ + diff, !.end_pos = @ + diff]
    ELSE comp

\* Shifted without lines 152-153
ShiftedNever(comp, component, diff) == comp

\* lines 150-153: one record of the loop
Shifted(comp, component, diff) ==
    IF comp.start_pos > component.start_pos
    THEN [comp EXCEPT !.start_pos = @ + diff, !.end_pos = @ + diff]
    ELSE comp

\* Patched without line 156
PatchedOldEnd(component, new_raw, lcsc, url) ==
    [component EXCEPT !.raw_content = new_raw, !.lcsc = lcsc, !.url = url]

\* lines 155-158
Patched(component, new_raw, lcsc, url) ==
    [component EXCEPT !.raw_content = new_raw,
                      !.end_pos = component.start_pos + Len(new_raw) - 1,
                      !.lcsc = lcsc,
                      !.url = url]

\* lines 148-158: the record list after the update of its k-th record
UpdatedComponents(comps, k, new_raw, lcsc, url) ==
    [j \in 1..Len(comps) |->
        IF j = k
        THEN Patched(Shifted(comps[k], comps[k], Len(new_raw) - Len(comps[k].raw_content)),
                     new_raw, lcsc, url)
        ELSE Shifted(comps[j], comps[k], Len(new_raw) - Len(comps[k].raw_content))]

(***************************************************************************)
(* The schematic files the sessions start from: each is a kicad_sch node   *)
(* holding up to MaxBlocks symbol blocks, taken in turn from BlockKinds.   *)
(***************************************************************************)
\* the url every caller passes with an identifier (lcsc_api.py line 122,
\* lcsc_linker.py line 80, lcsc_linker_gui.py line 234)
ProductUrl(lcsc_id) ==
    <<"https://www.lcsc.com/product-detail/">> \o lcsc_id \o <<".", "html">>

Property(name, val, at) ==
    <<NL, TAB, "(", "property", SP, Q, name, Q, SP, Q>> \o val
        \o <<Q, SP, "(", "at", SP, at, ")", ")">>

Pin == <<NL, TAB, "(", "pin", SP, Q, "1", Q, ")">>

Instances == <<NL, TAB, "(", "instances", SP, "project", ")">>

RECURSIVE Concat(_)
Concat(ss) == IF ss = <<>> THEN <<>> ELSE Head(ss) \o Concat(Tail(ss))

\* the position hint of a node of the block: the Reference has the block's
\* own, the other nodes another one
HintOf(kind, name) == IF name = "Reference" THEN kind.at ELSE "5"

Block(kind) ==
    <<"(", "symbol", SP, "(", "lib_id", SP, Q>> \o kind.lib \o <<Q, ")">>
        \o Concat([i \in 1..Len(kind.props) |->
                      Property(kind.props[i][1], kind.props[i][2],
                               HintOf(kind, kind.props[i][1]))])
        \o (IF kind.pin THEN Pin ELSE <<>>)
        \o (IF kind.inst THEN Instances ELSE <<>>)
        \o <<NL, ")">>

BlockKinds ==
    << \* a resistor with a pin and an instances node, not linked yet
       [lib |-> <<"Device:R">>, at |-> "10", pin |-> TRUE, inst |-> TRUE,
        props |-> << <<"Reference", <<"R1">> >>, <<"Value", <<"10k">> >> >>],
       \* a part that already has both attributes
       [lib |-> <<"Device:C">>, at |-> "20", pin |-> TRUE, inst |-> FALSE,
        props |-> << <<"Reference", <<"C2">> >>, <<"LCSC", <<"C7">> >>,
                     <<"URL", ProductUrl(<<"C7">>) >> >>],
       \* a part with neither a pin nor an instances node, and with two
       \* Value nodes
       [lib |-> <<"Device:L">>, at |-> "30", pin |-> FALSE, inst |-> FALSE,
        props |-> << <<"Reference", <<"L3">> >>, <<"Value", <<"1u">> >>,
                     <<"Value", <<"2u2">> >> >>],
       \* a power symbol
       [lib |-> <<"power:", "GND">>, at |-> "40", pin |-> TRUE, inst |-> FALSE,
        props |-> << <<"Reference", <<"#", "PWR01">> >> >>],
       \* a part with an LCSC attribute only, and no pin
       [lib |-> <<"Device:D">>, at |-> "50", pin |-> FALSE, inst |-> TRUE,
        props |-> << <<"Reference", <<"D5">> >>, <<"LCSC", <<"C7">> >> >>],
       \* a power symbol with an ordinary reference
       [lib |-> <<"power:", "VCC">>, at |-> "60", pin |-> TRUE, inst |-> FALSE,
        props |-> << <<"Reference", <<"P6">> >>, <<"Value", <<"VCC">> >> >>],
       \* a power flag of another library, with an ordinary reference
       [lib |-> <<"Custom", ":PWR_", "FLAG">>, at |-> "70", pin |-> TRUE,
        inst |-> TRUE,
        props |-> << <<"Reference", <<"F7">> >> >>],
       \* a part without a Reference
       [lib |-> <<"Device:T">>, at |-> "80", pin |-> TRUE, inst |-> FALSE,
        props |-> << <<"Value", <<"BC547">> >> >>],
       \* a part with an empty Reference
       [lib |-> <<"Device:Q">>, at |-> "90", pin |-> FALSE, inst |-> TRUE,
        props |-> << <<"Reference", <<>> >>, <<"Value", <<"BC557">> >> >>],
       \* an ordinary part with the reference of a virtual one
       [lib |-> <<"Device:G">>, at |-> "100", pin |-> TRUE, inst |-> FALSE,
        props |-> << <<"Reference", <<"#", "G10">> >> >>],
       \* a part with two Value nodes, the last with an escaped quote in its
       \* value
       [lib |-> <<"Device:Y">>, at |-> "120", pin |-> TRUE, inst |-> FALSE,
        props |-> << <<"Reference", <<"Y12">> >>, <<"Value", <<"3">> >>,
                     <<"Value", <<"5", BS, Q>> >> >>],
       \* a part damaged by a stray quote after its Value: from there on the
       \* scan of line 75 takes the text outside the quotes for quoted text
       [lib |-> <<"Device:X">>, at |-> "110", pin |-> TRUE, inst |-> FALSE,
        props |-> << <<"Reference", <<"X11">> >>, <<"Value", <<"5", Q>> >> >>] >>

NumKinds == Len(BlockKinds)

\* the file with n blocks, of the kinds first, first + 1, ... of the list
\* (cyclically)
FileOf(kinds, first, n) ==
    <<"(", "kicad_sch">>
        \o Concat([i \in 1..n |->
               <<NL>> \o Block(kinds[((first + i - 2) % Len(kinds)) + 1])])
        \o <<NL, ")">>

File(first, n) == FileOf(BlockKinds, first, n)

Files == {File(first, n) : first \in 1..NumKinds, n \in 1..MaxBlocks}

(***************************************************************************)
(* Manual entry of an identifier: prompt_selection of lcsc_linker.py and   *)
(* ComponentDialog._on_manual_entry of lcsc_linker_gui.py.  What is typed  *)
(* is a sequence of letters, runs of digits and other characters.          *)
(***************************************************************************)
DigitRuns == {"25804"}

\* what the user types
ManualEntries ==
    {<<SP, "c", "25804", SP>>, <<"C", Q>>, <<"C", BS, BS>>, <<"c", BS, "x">>,
     <<"25804">>, <<"x", "25804">>, <<SP>>, <<>>}

\* str.strip
Strip(v) ==
    Slice(v, FirstOr(0, Len(v) - 1, LAMBDA i : ~IsWs(Ch(v, i))),
             LastOr(0, Len(v) - 1, LAMBDA i : ~IsWs(Ch(v, i))) + 1)

\* str.upper
Upper(v) ==
    [i \in 1..Len(v) |-> CASE v[i] = "c" -> "C" [] v[i] = "x" -> "X"
                            [] OTHER -> v[i]]

\* str.isdigit
IsDigit(v) == v # <<>> /\ \A i \in 1..Len(v) : v[i] \in DigitRuns

\* no identifier is returned, the surface asks again
Rejected == [ok |-> FALSE]

Selected(lcsc_id) ==
    [ok |-> TRUE, lcsc_id |-> lcsc_id, url |-> ProductUrl(lcsc_id)]

\* lcsc_linker.py lines 79-83, with line 78's lcsc_id
PromptAccepts(lcsc_id) ==
    IF lcsc_id # <<>> /\ Ch(lcsc_id, 0) = "C" THEN Selected(lcsc_id)
    ELSE Rejected

\* prompt_selection, choice 'm'
PromptSelection(typed) == PromptAccepts(Upper(Strip(typed)))

\* lcsc_linker_gui.py lines 234-239, with line 233's lcsc_id
DialogAccepts(lcsc_id) ==
    IF lcsc_id # <<>> /\ Ch(lcsc_id, 0) = "C" /\ IsDigit(Tail(lcsc_id))
    THEN Selected(lcsc_id)
    ELSE Rejected

\* ComponentDialog._on_manual_entry
OnManualEntry(typed) == DialogAccepts(Upper(Strip(typed)))

\* the identifiers that reach update_component
LcscValues ==
    {PromptSelection(typed).lcsc_id :
        typed \in {t \in ManualEntries : PromptSelection(t).ok}}

(***************************************************************************)
(* fix_lcsc.py: add_lcsc_properties.                                       *)
(***************************************************************************)
LCSC_DATA ==
    (<<"J9">> :> <<"C99101">>) @@ (<<"U2">> :> <<"C12084">>)
    @@ (<<"R9">> :> <<"C25804">>) @@ (<<"L1">> :> <<"C86069">>)
    @@ (<<"C2">> :> <<"C45783">>) @@ (<<"C3">> :> <<"C307331">>)
    @@ (<<"R2">> :> <<"C4190">>) @@ (<<"C1">> :> <<"C89632">>)
    @@ (<<"R4">> :> <<"C22787">>) @@ (<<"R10">> :> <<"C23198">>)
    @@ (<<"R1">> :> <<"C4190">>) @@ (<<"J1">> :> <<"C99101">>)
    @@ (<<"R7">> :> <<"C1002">>) @@ (<<"R3">> :> <<"C22787">>)
    @@ (<<"D3">> :> <<"C173461">>) @@ (<<"D2">> :> <<"C19077604">>)
    @@ (<<"U3">> :> <<"C31122263">>) @@ (<<"R6">> :> <<"C1002">>)
    @@ (<<"J2">> :> <<"C99101">>)

\* symbol_pattern is \(symbol\s+\(lib_id\s+"[^"]+"\), then .*? (any text,
\* as short as possible), then the Reference node
\* \(property\s+"Reference"\s+"([^"]+)"[^)]*\(at\s+([^)]+)\)

\* \(symbol\s+\(lib_id\s+"[^"]+"\)
SymbolPatternOpen(s, p) == LibIdMatch(s, SymbolOpen(s, p))

\* \(property\s+"Reference"\s+" : the offset where group 2 starts
RefValueOpen(s, q) ==
    Lit(s, Ws1(s, Lit(s, Lit(s, PropOpen(s, q), "Reference"), Q)), Q)

\* ... ([^"]+) : the offset of the quote that ends group 2
RefValueEnd(s, q) == Until1(s, RefValueOpen(s, q), Q)

\* [^)]*\(at\s+([^)]+)\) from offset a on, where c is the first closing
\* parenthesis from a on: the offset of the last (at before c that a white
\* space and one more character follow, or -1
AtOpenBefore(s, a, c) ==
    IF c = -1 THEN -1
    ELSE NoneAt(LastOr(a, c - 1,
                    LAMBDA t : /\ Ch(s, t) = "(" /\ Ch(s, t + 1) = "at"
                               /\ IsWs(Ch(s, t + 2)) /\ c >= t + 4),
                a - 1)

\* the same after the quote at e that ends group 2
AtOpenAfter(s, e) ==
    IF e = -1 THEN -1 ELSE AtOpenBefore(s, e + 1, Find(s, ")", e + 1))

\* the Reference node matched at q: the offset of its (at, or -1
RefNodeAt(s, q) == AtOpenAfter(s, RefValueEnd(s, q))

\* the offset of the parenthesis that ends the match
RefNodeClose(s, q) == Find(s, ")", RefValueEnd(s, q) + 1)

\* .*? and the Reference node, from the offset l after the lib_id: the
\* offset of the first Reference node that matches, or -1
LazyRefNode(s, l) ==
    IF l = -1 THEN -1 ELSE Search(s, l, "(", LAMBDA q : RefNodeAt(s, q))

\* symbol_pattern matched at p: the offset of its Reference node, or -1
SymbolPatternNode(s, p) == LazyRefNode(s, SymbolPatternOpen(s, p))

\* the next match of finditer, from offset pos on
NextSymbolPattern(s, pos) ==
    Search(s, pos, "(", LAMBDA p : SymbolPatternNode(s, p))

\* match.group(2) and match.group(3), for the Reference node at q
RefGroup(s, q) == Slice(s, RefValueOpen(s, q), RefValueEnd(s, q))

AtCoordsGroup(s, q) ==
    CoordsGroup(s, WsEnd(s, RefNodeAt(s, q) + 2), RefNodeClose(s, q))

\* lines 65-66: the searches in content[symbol_start:], as offsets of content
RestPinMatch(s, symbol_start) ==
    Search(s, symbol_start, NL, LAMBDA i : PinMatch(s, i))

RestInstancesMatch(s, symbol_start) ==
    Search(s, symbol_start, NL, LAMBDA i : InstancesMatch(s, i))

\* lines 68-77: insert_pos, or -1 when line 75 skips the match
InsertPos(pin, ins) == IF pin # -1 THEN pin ELSE ins

\* a line 81 that never finds the attribute
LcscExistsNever(s, symbol_start, insert_pos) == FALSE

\* line 81: '"LCSC"' in content[symbol_start:insert_pos]
LcscExists(s, symbol_start, insert_pos) ==
    \E i \in symbol_start..(insert_pos - 3) :
        Ch(s, i) = Q /\ Ch(s, i + 1) = "LCSC" /\ Ch(s, i + 2) = Q

\* one node of the f-string of line 87
PropLines(indent, name, value, at_coords) ==
    indent \o <<"(", "property", SP, Q, name, Q, SP, Q>>
        \o value \o <<Q, SP, "(", "at", SP>> \o at_coords \o <<")", NL>>
        \o indent \o <<TAB>> \o Effects \o <<NL>> \o indent \o <<")", NL>>

\* line 87
NewProps(indent, lcsc_id, url, at_coords) ==
    PropLines(indent, "LCSC", lcsc_id, at_coords)
        \o PropLines(indent, "URL", url, at_coords)

\* lines 84-89, for a match with an insertion point
Modification(s, insert_pos, ref, lcsc_id, at_coords) ==
    [insert_pos |-> insert_pos,
     new_props |-> NewProps(IndentGroup(s, insert_pos), lcsc_id,
                            ProductUrl(lcsc_id), at_coords),
     ref |-> ref,
     lcsc_id |-> lcsc_id]

\* lines 68-89: the modifications after the match at symbol_start
PlannedAt(s, symbol_start, insert_pos, ref, at_coords, modifications) ==
    IF insert_pos = -1 \/ LcscExists(s, symbol_start, insert_pos)
    THEN modifications
    ELSE Append(modifications,
                Modification(s, insert_pos, ref, LCSC_DATA[ref], at_coords))

\* lines 50-89: the body of the loop, for the match at symbol_start whose
\* Reference node is at q
Planned(s, symbol_start, q, modifications) ==
    IF RefGroup(s, q) \notin DOMAIN LCSC_DATA THEN modifications
    ELSE PlannedAt(s, symbol_start,
                   InsertPos(RestPinMatch(s, symbol_start),
                             RestInstancesMatch(s, symbol_start)),
                   RefGroup(s, q), AtCoordsGroup(s, q), modifications)

\* line 92: list.sort by insert_pos with reverse=True, which keeps the
\* order of the modifications that have the same insert_pos
RECURSIVE SortedInsert(_, _)
SortedInsertAscending(sorted, m) ==
    IF sorted = <<>> THEN <<m>>
    ELSE IF Head(sorted).insert_pos <= m.insert_pos
         THEN <<Head(sorted)>> \o SortedInsert(Tail(sorted), m)
    ELSE <<m>> \o sorted

SortedInsert(sorted, m) ==
    IF sorted = <<>> THEN <<m>>
    ELSE IF Head(sorted).insert_pos >= m.insert_pos
         THEN <<Head(sorted)>> \o SortedInsert(Tail(sorted), m)
    ELSE <<m>> \o sorted

RECURSIVE SortedFrom(_, _)
SortedFrom(ms, sorted) ==
    IF ms = <<>> THEN sorted
    ELSE SortedFrom(Tail(ms), SortedInsert(sorted, Head(ms)))

Sorted(modifications) == SortedFrom(modifications, <<>>)

\* line 95
Applied(s, m) ==
    Slice(s, 0, m.insert_pos) \o m.new_props \o Slice(s, m.insert_pos, Len(s))

\* the files that fix_lcsc.py is run on
BatchKinds ==
    << BlockKinds[1],
       \* a second resistor, with a pin only
       [lib |-> <<"Device:R">>, at |-> "120", pin |-> TRUE, inst |-> FALSE,
        props |-> << <<"Reference", <<"R2">> >>, <<"Value", <<"4k7">> >> >>],
       BlockKinds[2],
       \* an inductor of the table, with neither a pin nor an instances node
       [lib |-> <<"Device:L">>, at |-> "130", pin |-> FALSE, inst |-> FALSE,
        props |-> << <<"Reference", <<"L1">> >> >>],
       \* a diode of the table, with an instances node only
       [lib |-> <<"Device:D">>, at |-> "140", pin |-> FALSE, inst |-> TRUE,
        props |-> << <<"Reference", <<"D3">> >> >>],
       BlockKinds[3],
       BlockKinds[8],
       BlockKinds[4] >>

BatchFiles ==
    {FileOf(BatchKinds, first, n) :
        first \in 1..Len(BatchKinds), n \in 1..MaxBlocks}

(***************************************************************************)
(* State.                                                                  *)
(***************************************************************************)
VARIABLES
    file,        \* the text of the schematic file on disk
    content,     \* KicadSchParser.content
    components,  \* KicadSchParser.components
    nupdates,    \* number of update_component calls so far
    hist,        \* the last call: its arguments, the state it started from
                 \* and, in prev, the call before it
    batch,       \* a run of fix_lcsc.py: where it is, and its local variables
    search,      \* a call of LCSCClient.search: where it is, its arguments
                 \* and local variables, and the responses it got so far
    session      \* a session of lcsc_linker.py or of the main window: where
                 \* it is, its options and its local variables

vars == <<file, content, components, nupdates, hist, batch, search, session>>

\* no run of fix_lcsc.py
NoBatch == [pc |-> "none"]

\* no call of LCSCClient.search
NoSearch == [pc |-> "none"]

\* no session
NoSession == [pc |-> "none"]

NoPrev == [op |-> "none"]

NoCall(op) ==
    [op |-> op, idx |-> 0, lcsc |-> <<>>, url |-> <<>>, mid |-> Raise,
     pre_content |-> <<>>, pre_components |-> <<>>, prev |-> NoPrev]

\* what a call keeps of the call before it: an update_component call as it
\* is, of any other call its name
Before(h) ==
    IF h.op \in {"update", "raise"} THEN [h EXCEPT !.prev = NoPrev]
    ELSE NoCall(h.op)

\* KicadSchParser.__init__
Init ==
    /\ file \in Files
    /\ content = <<>>
    /\ components = <<>>
    /\ nupdates = 0
    /\ hist = NoCall("init")
    /\ batch = NoBatch
    /\ search = NoSearch
    /\ session = NoSession

ParseKeeping ==
    /\ hist.op \in {"init", "save", "parse"}
    /\ content' = file
    /\ components' = components \o ParseAll(file)
    /\ hist' = [NoCall("parse") EXCEPT !.pre_content = content,
                                       !.pre_components = components,
                                       !.prev = Before(hist)]
    /\ UNCHANGED <<file, nupdates, batch, search, session>>

\* KicadSchParser.parse, on a new parser, after a save or after a parse
\* (the sessions of lcsc_linker.py and lcsc_linker_gui.py parse a file when
\* it is opened, before any update)
Parse ==
    /\ hist.op \in {"init", "save", "parse"}
    /\ content' = file
    /\ components' = ParseAll(file)
    /\ hist' = [NoCall("parse") EXCEPT !.pre_content = content,
                                       !.pre_components = components,
                                       !.prev = Before(hist)]
    /\ UNCHANGED <<file, nupdates, batch, search, session>>

\* update_component once line 136 gave mid and line 139 gave new.  When
\* re.sub raised re.error the call ends there, before its first assignment.
Updated(k, lcsc, url, mid, new) ==
    /\ hist' = [op |-> IF new.raise THEN "raise" ELSE "update",
                idx |-> k, lcsc |-> lcsc, url |-> url, mid |-> mid,
                pre_content |-> content, pre_components |-> components,
                prev |-> Before(hist)]
    /\ content' = IF new.raise THEN content
                  ELSE Splice(content, components[k], new.text)
    /\ components' = IF new.raise THEN components
                     ELSE UpdatedComponents(components, k, new.text, lcsc, url)

\* lines 138-158, once line 136 gave mid
UpdatedLcsc(k, lcsc, url, mid) == Updated(k, lcsc, url, mid, UpdateUrl(mid, url))

\* KicadSchParser.update_component on the k-th tracked record
UpdateComponent(k, lcsc, url) ==
    /\ nupdates < MaxUpdates
    /\ nupdates' = nupdates + 1
    /\ UpdatedLcsc(k, lcsc, url, UpdateLcsc(components[k].raw_content, lcsc))
    /\ UNCHANGED <<file, batch, search, session>>

\* KicadSchParser.save, to the file that was parsed
Save ==
    /\ hist.op # "init"
    /\ file' = content
    /\ hist' = NoCall("save")
    /\ UNCHANGED <<content, components, nupdates, batch, search, session>>

\* lcsc_linker.py lines 179-188: the identifier that prompt_selection
\* returned goes to update_component
CliUpdate(k, selected) ==
    /\ selected.ok
    /\ UpdateComponent(k, selected.lcsc_id, selected.url)

\* lcsc_linker_gui.py lines 411-414 and 446-449: the same for the dialog
GuiUpdate(k, selected) ==
    /\ selected.ok
    /\ UpdateComponent(k, selected.lcsc_id, selected.url)

Next ==
    \/ Parse
    \/ \E k \in 1..Len(components), typed \in ManualEntries :
           CliUpdate(k, PromptSelection(typed))
    \/ \E k \in 1..Len(components), typed \in ManualEntries :
           GuiUpdate(k, OnManualEntry(typed))
    \/ Save

Spec == Init /\ [][Next]_vars

(***************************************************************************)
(* A run of fix_lcsc.py on a file, step by step: the file is read, the     *)
(* loop of line 49 takes the matches one by one, line 92 sorts, the loop   *)
(* of line 94 applies the modifications one by one, line 99 writes.        *)
(***************************************************************************)
BatchInit ==
    /\ file \in BatchFiles
    /\ content = <<>>
    /\ components = <<>>
    /\ nupdates = 0
    /\ hist = NoCall("init")
    /\ batch = [pc |-> "read", original |-> <<>>, content |-> <<>>, pos |-> 0,
                modifications |-> <<>>, applied |-> 0]
    /\ search = NoSearch
    /\ session = NoSession

\* line 37
BatchRead ==
    /\ batch.pc = "read"
    /\ batch' = [batch EXCEPT !.pc = "scan", !.original = file,
                              !.content = file]
    /\ UNCHANGED <<file, content, components, nupdates, hist, search, session>>

\* lines 49-89, for the match at symbol_start
BatchMatchAt(symbol_start, q) ==
    /\ symbol_start # -1
    /\ batch' = [batch EXCEPT
                    !.pos = RefNodeClose(batch.content, q) + 1,
                    !.modifications =
                        Planned(batch.content, symbol_start, q, @)]

\* one turn of the loop of line 49
BatchMatch ==
    /\ batch.pc = "scan"
    /\ BatchMatchAt(NextSymbolPattern(batch.content, batch.pos),
                    SymbolPatternNode(batch.content,
                        NextSymbolPattern(batch.content, batch.pos)))
    /\ UNCHANGED <<file, content, components, nupdates, hist, search, session>>

\* line 92, once finditer has no more match
BatchSort ==
    /\ batch.pc = "scan"
    /\ NextSymbolPattern(batch.content, batch.pos) = -1
    /\ batch' = [batch EXCEPT !.pc = "apply",
                              !.modifications = Sorted(@)]
    /\ UNCHANGED <<file, content, components, nupdates, hist, search, session>>

\* one turn of the loop of line 94
BatchApply ==
    /\ batch.pc = "apply"
    /\ batch.applied < Len(batch.modifications)
    /\ batch' = [batch EXCEPT
                    !.applied = @ + 1,
                    !.content =
                        Applied(@, batch.modifications[batch.applied + 1])]
    /\ UNCHANGED <<file, content, components, nupdates, hist, search, session>>

\* line 99
BatchWrite ==
    /\ batch.pc = "apply"
    /\ batch.applied = Len(batch.modifications)
    /\ file' = batch.content
    /\ batch' = [batch EXCEPT !.pc = "done"]
    /\ UNCHANGED <<content, components, nupdates, hist, search, session>>

BatchNext == BatchRead \/ BatchMatch \/ BatchSort \/ BatchApply \/ BatchWrite

BatchSpec == BatchInit /\ [][BatchNext]_vars

(***************************************************************************)
(* lcsc_api.py: LCSCClient.search.  One action is one turn of the loop of  *)
(* line 56, with what session.post gave in that turn.                      *)
(***************************************************************************)
\* the largest retries a call is made with (line 48 has 3 as the default)
MaxRetries == 3

\* the limits a call is made with
Limits == {1, 2}

\* the componentCode of an item of the list: none, or an identifier
ItemCodes == {<<>>, <<"C", "25804">>}

\* the lists of items a response carries
ProductLists ==
    {<<>>} \cup {<<a>> : a \in ItemCodes}
           \cup {<<a, b>> : a \in ItemCodes, b \in ItemCodes}

\* what session.post gives: it raises a RequestException (no connection, a
\* timeout), or it returns a response with a status code and a body
Responses ==
    {[kind |-> "exception"]}
    \cup {[kind |-> "response", status_code |-> 403, body |-> "none"],
          [kind |-> "response", status_code |-> 500, body |-> "none"],
          [kind |-> "response", status_code |-> 200, body |-> "notjson"],
          [kind |-> "response", status_code |-> 200, body |-> "json",
           code |-> 500, data |-> "none", list |-> <<>>],
          [kind |-> "response", status_code |-> 200, body |-> "json",
           code |-> 200, data |-> "null", list |-> <<>>]}
    \cup {[kind |-> "response", status_code |-> 200, body |-> "json",
           code |-> 200, data |-> "dict", list |-> l] : l \in ProductLists}

\* lines 101-123: _parse_product gives None for an item without a
\* componentCode
NoProduct == [none |-> TRUE]

ParseProduct(item) ==
    IF item = <<>> THEN NoProduct
    ELSE [none |-> FALSE, lcsc_id |-> item, url |-> ProductUrl(item)]

\* lines 84-88
RECURSIVE ParsedProducts(_)
ParsedProducts(products) ==
    IF products = <<>> THEN <<>>
    ELSE IF ParseProduct(Head(products)).none
         THEN ParsedProducts(Tail(products))
    ELSE <<ParseProduct(Head(products))>> \o ParsedProducts(Tail(products))

\* the turn ends the call with these components
Returns(found) == [next |-> "return", components |-> found, pause |-> 0]

\* the turn ends the call with an exception
Raises == [next |-> "raise", components |-> <<>>, pause |-> 0]

\* lines 69-73 and lines 93-97: after a 403 and after a RequestException,
\* with the sleep of line 70 or of line 94
FailedRaising(attempt, retries, pause) ==
    IF attempt < retries - 1
    THEN [next |-> "continue", components |-> <<>>, pause |-> pause]
    ELSE Raises

Failed(attempt, retries, pause) ==
    IF attempt < retries - 1
    THEN [next |-> "continue", components |-> <<>>, pause |-> pause]
    ELSE Returns(<<>>)

\* s[:n]
UpTo(s, n) == Slice(s, 0, IF n < Len(s) THEN n ELSE Len(s))

\* lines 76-90, for a body that is JSON
Listed(resp, limit) ==
    IF resp.code # 200 THEN Returns(<<>>)
    ELSE IF resp.data = "null" THEN Raises
    ELSE Returns(ParsedProducts(UpTo(resp.list, limit)))

\* lines 61-97: what a turn of the loop does with what session.post gave.
\* response.json() raises requests' JSONDecodeError, which is a
\* RequestException in the releases from 2.27 on and a plain ValueError
\* before: json_caught tells which.
Turn(resp, attempt, retries, limit, json_caught) ==
    IF resp.kind = "exception" THEN Failed(attempt, retries, 2)
    ELSE IF resp.status_code = 403 THEN Failed(attempt, retries, 3)
    ELSE IF resp.status_code >= 400 THEN Failed(attempt, retries, 2)
    ELSE IF resp.body = "notjson"
         THEN (IF json_caught THEN Failed(attempt, retries, 2) ELSE Raises)
    ELSE Listed(resp, limit)

\* line 59
Backoff(attempt) == IF attempt > 0 THEN 2 * attempt ELSE 0

\* LCSCClient.search is called
SearchInit ==
    /\ file = <<>>
    /\ content = <<>>
    /\ components = <<>>
    /\ nupdates = 0
    /\ hist = NoCall("init")
    /\ batch = NoBatch
    /\ session = NoSession
    /\ \E retries \in 0..MaxRetries, limit \in Limits, caught \in BOOLEAN :
           search = [pc |-> "loop", retries |-> retries, limit |-> limit,
                     json_caught |-> caught, attempt |-> 0, posts |-> 0,
                     slept |-> 0, got |-> <<>>, components |-> <<>>]

SearchTurned(resp, turn) ==
    search' = [search EXCEPT
                  !.pc = CASE turn.next = "continue" -> "loop"
                           [] turn.next = "return" -> "returned"
                           [] turn.next = "raise" -> "raised",
                  !.attempt = IF turn.next = "continue" THEN @ + 1 ELSE @,
                  !.posts = @ + 1,
                  !.slept = @ + Backoff(search.attempt) + turn.pause,
                  !.got = Append(@, resp),
                  !.components = turn.components]

\* one turn of the loop of line 56
SearchAttempt(resp) ==
    /\ search.pc = "loop"
    /\ search.attempt < search.retries
    /\ SearchTurned(resp, Turn(resp, search.attempt, search.retries,
                               search.limit, search.json_caught))
    /\ UNCHANGED <<file, content, components, nupdates, hist, batch, session>>

\* line 99, once the loop has no more turn
SearchExhausted ==
    /\ search.pc = "loop"
    /\ search.attempt >= search.retries
    /\ search' = [search EXCEPT !.pc = "returned", !.components = <<>>]
    /\ UNCHANGED <<file, content, components, nupdates, hist, batch, session>>

SearchNext == (\E resp \in Responses : SearchAttempt(resp)) \/ SearchExhausted

SearchSpec == SearchInit /\ [][SearchNext]_vars

\* session.post returns or raises within its timeout of 15 seconds, and the
\* sleeps end: a call that can take a turn does
SearchFair == SearchSpec /\ WF_vars(SearchNext)

(***************************************************************************)
(* lcsc_linker.py: a session of the command line (main).  One action is    *)
(* the parse, one turn of the loop of line 179, or the end of main.        *)
(***************************************************************************)
\* what client.search returns to process_component and prompt_selection
SearchResults == {ParsedProducts(l) : l \in ProductLists}

\* KicadSchParser.parse, called by a session
ParserParse ==
    /\ content' = file
    /\ components' = ParseAll(file)
    /\ hist' = [NoCall("parse") EXCEPT !.pre_content = content,
                                       !.pre_components = components,
                                       !.prev = Before(hist)]

\* KicadSchParser.update_component, called by a session
ParserUpdate(k, lcsc, url) ==
    /\ nupdates' = nupdates + 1
    /\ UpdatedLcsc(k, lcsc, url, UpdateLcsc(components[k].raw_content, lcsc))

\* KicadSchParser.save, called by a session
ParserSave ==
    /\ file' = content
    /\ hist' = NoCall("save")

\* update_component raises re.error
UpdateRaises(k, lcsc, url) ==
    UpdateUrl(UpdateLcsc(components[k].raw_content, lcsc), url).raise

\* what the operator does at the prompt of prompt_selection, after the
\* answers that make it ask again (s, a rejected identifier, a number that
\* is not in the list): q, k, a number of the list, or an identifier typed
\* after m that line 79 accepts
Answers ==
    {[choice |-> "q"], [choice |-> "k"]}
    \cup {[choice |-> "number", idx |-> i] : i \in 0..1}
    \cup {[choice |-> "m", typed |-> t] :
             t \in {u \in ManualEntries : PromptSelection(u).ok}}

\* prompt_selection, lines 58-92: what it returns for the answer
Prompted(results, answer) ==
    CASE answer.choice = "k" -> [ok |-> FALSE]
      [] answer.choice = "m" -> PromptSelection(answer.typed)
      [] answer.choice = "number" ->
            [ok |-> TRUE, lcsc_id |-> results[answer.idx + 1].lcsc_id,
             url |-> results[answer.idx + 1].url]

\* lines 100-103 with the option read the other way
SkipsOnOverwrite(comp, skip_existing) == ~skip_existing /\ comp.lcsc # <<>>

\* lines 100-103
SkipsExisting(comp, skip_existing) == skip_existing /\ comp.lcsc # <<>>

\* the files the sessions are started on have up to this many blocks
MaxSessionBlocks == 2

SessionFiles ==
    {File(first, n) : first \in 1..NumKinds, n \in 1..MaxSessionBlocks}

\* main is started on a file, with its options
CliInit ==
    /\ file \in SessionFiles
    /\ content = <<>>
    /\ components = <<>>
    /\ nupdates = 0
    /\ hist = NoCall("init")
    /\ batch = NoBatch
    /\ search = NoSearch
    /\ \E dry_run \in BOOLEAN, overwrite \in BOOLEAN :
           session = [pc |-> "parse", dry_run |-> dry_run,
                      overwrite |-> overwrite, i |-> 0,
                      updated_count |-> 0, skipped_count |-> 0,
                      searches |-> <<>>, prompts |-> <<>>, updates |-> <<>>,
                      saves |-> 0, parsed |-> <<>>]

\* lines 162-177
CliParse ==
    /\ session.pc = "parse"
    /\ ParserParse
    /\ session' = [session EXCEPT
                      !.pc = IF ParseAll(file) = <<>> THEN "done" ELSE "loop",
                      !.i = 1,
                      !.parsed = ParseAll(file)]
    /\ UNCHANGED <<file, nupdates, batch, search>>

\* one turn of the loop of line 179 in which process_component returns at
\* line 103
CliSkipExisting ==
    /\ session.pc = "loop"
    /\ SkipsExisting(components[session.i], ~session.overwrite)
    /\ session' = [session EXCEPT
                      !.skipped_count = @ + 1,
                      !.i = @ + 1,
                      !.pc = IF session.i = Len(components) THEN "end"
                             ELSE "loop"]
    /\ UNCHANGED <<file, content, components, nupdates, hist, batch, search>>

\* lines 186-192, with what process_component returned
CliSet(selected, searched) ==
    IF ~selected.ok
    THEN /\ session' = [searched EXCEPT
                           !.skipped_count = @ + 1,
                           !.i = @ + 1,
                           !.pc = IF session.i = Len(components) THEN "end"
                                  ELSE "loop"]
         /\ UNCHANGED <<content, components, nupdates, hist>>
    ELSE IF session.dry_run
    THEN /\ session' = [searched EXCEPT
                           !.updated_count = @ + 1,
                           !.i = @ + 1,
                           !.pc = IF session.i = Len(components) THEN "end"
                                  ELSE "loop"]
         /\ UNCHANGED <<content, components, nupdates, hist>>
    ELSE /\ ParserUpdate(session.i, selected.lcsc_id, selected.url)
         /\ session' =
                IF UpdateRaises(session.i, selected.lcsc_id, selected.url)
                THEN [searched EXCEPT
                         !.updates = Append(@, session.i),
                         !.pc = "error"]
                ELSE [searched EXCEPT
                         !.updates = Append(@, session.i),
                         !.updated_count = @ + 1,
                         !.i = @ + 1,
                         !.pc = IF session.i = Len(components) THEN "end"
                                ELSE "loop"]

\* one turn of the loop of line 179 in which process_component searches and
\* prompts: results is the list at the prompt when the answer is given
\* (what the searches of lines 113 and 119 gave, or the operator's own
\* search of lines 66-73)
CliProcess(results, answer) ==
    /\ session.pc = "loop"
    /\ ~SkipsExisting(components[session.i], ~session.overwrite)
    /\ answer.choice = "number" => answer.idx < Len(results)
    /\ IF answer.choice = "q"
       THEN /\ session' = [session EXCEPT
                              !.searches = Append(@, session.i),
                              !.prompts = Append(@, session.i),
                              !.pc = "exit"]
            /\ UNCHANGED <<content, components, nupdates, hist>>
       ELSE CliSet(Prompted(results, answer),
                   [session EXCEPT
                       !.searches = Append(@, session.i),
                       !.prompts = Append(@, session.i)])
    /\ UNCHANGED <<file, batch, search>>

\* lines 194-207
CliEnd ==
    /\ session.pc = "end"
    /\ IF ~session.dry_run /\ session.updated_count > 0
       THEN /\ ParserSave
            /\ session' = [session EXCEPT !.pc = "done", !.saves = @ + 1]
       ELSE /\ session' = [session EXCEPT !.pc = "done"]
            /\ UNCHANGED <<file, hist>>
    /\ UNCHANGED <<content, components, nupdates, batch, search>>

CliNext ==
    \/ CliParse
    \/ CliSkipExisting
    \/ \E results \in SearchResults, answer \in Answers :
           CliProcess(results, answer)
    \/ CliEnd

CliSpec == CliInit /\ [][CliNext]_vars

(***************************************************************************)
(* lcsc_linker_gui.py: a session of the main window (MainFrame).  One      *)
(* action is one handler, or one turn of the loop of _process_components.  *)
(***************************************************************************)
\* how a ComponentDialog ends: Cancel All (or the window is closed), Skip,
\* or Select and an accepted manual entry, with the identifier selected in
\* the list (lines 203-209, 218-221) or typed (lines 231-237)
DialogResults ==
    {[code |-> "ID_CANCEL", selected_lcsc_id |-> <<>>, selected_url |-> <<>>],
     [code |-> "ID_NO", selected_lcsc_id |-> <<>>, selected_url |-> <<>>]}
    \cup {[code |-> "ID_OK", selected_lcsc_id |-> r[1].lcsc_id,
           selected_url |-> r[1].url] : r \in SearchResults \ {<<>>}}
    \cup {[code |-> "ID_OK", selected_lcsc_id |-> OnManualEntry(t).lcsc_id,
           selected_url |-> OnManualEntry(t).url] :
             t \in {u \in ManualEntries : OnManualEntry(u).ok}}

\* a line 445 that never breaks
BreaksNever(result) == FALSE

\* line 445
Breaks(result) == result.code = "ID_CANCEL"

\* lines 413 and 448
Applies(result) == result.code = "ID_OK" /\ result.selected_lcsc_id # <<>>

\* line 425: self.components, as indexes of the records
AllComponents(comps) == [k \in 1..Len(comps) |-> k]

\* line 429: the components from the k-th on that have no LCSC
RECURSIVE EmptyFrom(_, _)
EmptyFrom(comps, k) ==
    IF k > Len(comps) THEN <<>>
    ELSE IF comps[k].lcsc = <<>> THEN <<k>> \o EmptyFrom(comps, k + 1)
    ELSE EmptyFrom(comps, k + 1)

EmptyComponents(comps) == EmptyFrom(comps, 1)

\* the window is open, no file is loaded yet
GuiInit ==
    /\ file \in SessionFiles
    /\ content = <<>>
    /\ components = <<>>
    /\ nupdates = 0
    /\ hist = NoCall("init")
    /\ batch = NoBatch
    /\ search = NoSearch
    /\ session = [pc |-> "start", save_btn |-> FALSE, after |-> "none",
                  todo |-> <<>>, i |-> 0, updated |-> 0, skipped |-> 0,
                  cancelled_at |-> 0, before |-> <<>>, chosen |-> <<>>,
                  applied |-> 0, other |-> <<>>]

\* the session when another handler of the main window runs: the locals of
\* the last _process_components are gone
Forgotten ==
    [session EXCEPT !.todo = <<>>, !.i = 0, !.updated = 0, !.skipped = 0,
                    !.cancelled_at = 0, !.before = <<>>, !.chosen = <<>>]

\* MainFrame._load_file, lines 362-384
GuiLoad ==
    /\ session.pc \in {"start", "idle"}
    /\ ParserParse
    /\ session' = [Forgotten EXCEPT !.pc = "idle", !.save_btn = FALSE,
                                    !.after = "load", !.applied = 0]
    /\ UNCHANGED <<file, nupdates, batch, search>>

\* MainFrame._process_single_component, lines 407-421
GuiProcessSingle(idx, result) ==
    /\ session.pc = "idle"
    /\ nupdates < MaxUpdates
    /\ IF Applies(result)
       THEN /\ ParserUpdate(idx, result.selected_lcsc_id, result.selected_url)
            /\ session' = [Forgotten EXCEPT !.save_btn = TRUE,
                                            !.after = "single",
                                            !.applied = @ + 1]
       ELSE /\ session' = [Forgotten EXCEPT !.after = "single"]
            /\ UNCHANGED <<content, components, nupdates, hist>>
    /\ UNCHANGED <<file, batch, search>>

\* lines 436-440, for the list that the handler passes
GuiProcessComponents(todo) ==
    /\ session.pc = "idle"
    /\ nupdates + Len(todo) <= MaxUpdates
    /\ session' = [session EXCEPT !.pc = "batch", !.todo = todo, !.i = 1,
                                  !.updated = 0, !.skipped = 0,
                                  !.cancelled_at = 0, !.before = components,
                                  !.chosen = <<>>]
    /\ UNCHANGED <<file, content, components, nupdates, hist, batch, search>>

\* MainFrame._on_process_all
GuiOnProcessAll ==
    /\ components # <<>>
    /\ GuiProcessComponents(AllComponents(components))

\* MainFrame._on_process_empty, when there is a component without LCSC
GuiOnProcessEmpty ==
    /\ EmptyComponents(components) # <<>>
    /\ GuiProcessComponents(EmptyComponents(components))

\* the session once the dialog of this turn ended: chosen keeps how the
\* dialogs ended, cancelled_at the first turn in which Cancel All was chosen
Chose(result) ==
    [session EXCEPT
        !.chosen = Append(@, result),
        !.cancelled_at = IF result.code = "ID_CANCEL" /\ @ = 0
                         THEN session.i ELSE @]

\* one turn of the loop of line 440, with how the dialog ended
GuiTurn(result) ==
    /\ session.pc = "batch"
    /\ session.i <= Len(session.todo)
    /\ IF Breaks(result)
       THEN /\ session' = [Chose(result) EXCEPT !.pc = "after"]
            /\ UNCHANGED <<content, components, nupdates, hist>>
       ELSE IF Applies(result)
       THEN /\ ParserUpdate(session.todo[session.i], result.selected_lcsc_id,
                            result.selected_url)
            /\ session' = [Chose(result) EXCEPT !.updated = @ + 1,
                                                !.i = @ + 1,
                                                !.applied = @ + 1]
       ELSE /\ session' = [Chose(result) EXCEPT !.skipped = @ + 1,
                                                !.i = @ + 1]
            /\ UNCHANGED <<content, components, nupdates, hist>>
    /\ UNCHANGED <<file, batch, search>>

\* the loop of line 440 has no more turn
GuiLoopEnd ==
    /\ session.pc = "batch"
    /\ session.i > Len(session.todo)
    /\ session' = [session EXCEPT !.pc = "after"]
    /\ UNCHANGED <<file, content, components, nupdates, hist, batch, search>>

\* a line 457 that does not ask whether the loop updated a component
EnabledAfterLoopAlways(updated, enabled) == TRUE

\* lines 457-458: whether the Save button is enabled after the loop
EnabledAfterLoop(updated, enabled) == IF updated > 0 THEN TRUE ELSE enabled

\* lines 455-466
GuiAfterLoop ==
    /\ session.pc = "after"
    /\ session' = [session EXCEPT
                      !.pc = "idle",
                      !.after = "batch",
                      !.save_btn = EnabledAfterLoop(session.updated, @)]
    /\ UNCHANGED <<file, content, components, nupdates, hist, batch, search>>

\* MainFrame._on_save, lines 468-477
GuiOnSave ==
    /\ session.pc = "idle"
    /\ ParserSave
    /\ session' = [Forgotten EXCEPT !.save_btn = FALSE, !.after = "save",
                                    !.applied = 0]
    /\ UNCHANGED <<content, components, nupdates, batch, search>>

\* MainFrame._on_save_as, lines 479-498, when a path was chosen: the buffer
\* is written to the other file, which session.other stands for
GuiOnSaveAs ==
    /\ session.pc = "idle"
    /\ hist' = NoCall("save")
    /\ session' = [Forgotten EXCEPT !.save_btn = FALSE, !.after = "save_as",
                                    !.applied = 0, !.other = content]
    /\ UNCHANGED <<file, content, components, nupdates, batch, search>>

\* _on_save or _on_save_as when write_text raises (lines 476-477 and
\* 497-498): a message is shown, nothing is written and the button is left
\* as it is (session.after keeps the last handler that did something)
GuiSaveFails ==
    /\ session.pc = "idle"
    /\ session' = Forgotten
    /\ UNCHANGED <<file, content, components, nupdates, hist, batch, search>>

GuiNext ==
    \/ GuiLoad
    \/ \E idx \in 1..Len(components), result \in DialogResults :
           GuiProcessSingle(idx, result)
    \/ GuiOnProcessAll
    \/ GuiOnProcessEmpty
    \/ \E result \in DialogResults : GuiTurn(result)
    \/ GuiLoopEnd
    \/ GuiAfterLoop
    \/ GuiOnSave
    \/ GuiOnSaveAs
    \/ GuiSaveFails

GuiSpec == GuiInit /\ [][GuiNext]_vars

(***************************************************************************)
(* Properties.  hist holds the last call, so that what a call did can be   *)
(* read off the state it leaves.                                           *)
(***************************************************************************)
\* the record the last update_component was called on, as it was before
Target == hist.pre_components[hist.idx]

\* by how much that call changed the length of the buffer
Delta == Len(content) - Len(hist.pre_content)

\* C1: after update_component on R changed the length of R's block by
\* delta, every other tracked record has start_pos and end_pos both larger
\* by delta if its start_pos was greater than R's before the call, and both
\* unchanged otherwise.
C1_OthersShiftByDelta ==
    hist.op = "update" =>
        \A j \in 1..Len(components) :
            j # hist.idx =>
                /\ components[j].start_pos - hist.pre_components[j].start_pos
                     = (IF hist.pre_components[j].start_pos > Target.start_pos
                        THEN Delta ELSE 0)
                /\ components[j].end_pos - hist.pre_components[j].end_pos
                     = (IF hist.pre_components[j].start_pos > Target.start_pos
                        THEN Delta ELSE 0)

\* an update that changed the length of a block with records on both sides
C1_Witness ==
    /\ hist.op = "update"
    /\ Delta # 0
    /\ \E i, j \in 1..Len(components) :
           /\ hist.pre_components[i].start_pos < Target.start_pos
           /\ hist.pre_components[j].start_pos > Target.start_pos

\* C2: after parse and after any sequence of update_component calls, every
\* tracked record has content[start_pos .. end_pos] = raw_content.
C2_RawContentIsSlice ==
    \A j \in 1..Len(components) :
        Slice(content, components[j].start_pos, components[j].end_pos + 1)
            = components[j].raw_content

\* a second update in a row, of a record with another one behind it, that
\* changed the length of the buffer
C2_Witness ==
    /\ hist.op = "update"
    /\ nupdates = 2
    /\ Delta # 0
    /\ hist.idx < Len(components)

\* C3: after parse and any sequence of update_component calls, the ranges
\* [start_pos, end_pos] of two distinct tracked records are disjoint (so
\* neither lies within the other) and every range has
\* 0 <= start_pos <= end_pos < len(content).
C3_RangesDisjointAndValid ==
    /\ \A j \in 1..Len(components) :
           /\ 0 <= components[j].start_pos
           /\ components[j].start_pos <= components[j].end_pos
           /\ components[j].end_pos < Len(content)
    /\ \A i, j \in 1..Len(components) :
           i # j => \/ components[i].end_pos < components[j].start_pos
                    \/ components[j].end_pos < components[i].start_pos

\* an update that made a block longer, with a record behind it
C3_Witness ==
    /\ hist.op = "update"
    /\ Delta > 0
    /\ hist.idx < Len(components)
    /\ Len(components) >= 2

\* C8: update_component on R leaves the buffer before R's start_pos and
\* after R's old end_pos as it was: the new buffer is
\* old[0 .. start-1] + new_block + old[old_end+1 ..].
C8_BufferOutsideBlockKept ==
    hist.op = "update" =>
        content = Slice(hist.pre_content, 0, Target.start_pos)
                      \o components[hist.idx].raw_content
                      \o Slice(hist.pre_content, Target.end_pos + 1,
                               Len(hist.pre_content))

\* an update of a block in the middle of the buffer that changed its length
C8_Witness ==
    /\ hist.op = "update"
    /\ Delta # 0
    /\ Target.start_pos > 0
    /\ Target.end_pos + 1 < Len(hist.pre_content)
    /\ components[hist.idx].raw_content # Target.raw_content

(***************************************************************************)
(* Properties of one upsert.  An update_component call makes two: LCSC on  *)
(* the record's block, giving hist.mid, then URL on hist.mid, giving the   *)
(* record's new block.  The blocks are read here token by token, not with  *)
(* the patterns of the code.                                               *)
(***************************************************************************)
\* an attribute node with this name starts at offset i of raw
NodeAt(raw, name, i) ==
    /\ Ch(raw, i) = "(" /\ Ch(raw, i + 1) = "property" /\ IsWs(Ch(raw, i + 2))
    /\ Ch(raw, i + 3) = Q /\ Ch(raw, i + 4) = name /\ Ch(raw, i + 5) = Q
    /\ IsWs(Ch(raw, i + 6)) /\ Ch(raw, i + 7) = Q

Nodes(raw, name) == {i \in 0..(Len(raw) - 1) : NodeAt(raw, name, i)}

\* the value of the node at i is v
HasValueAt(raw, i, v) ==
    /\ Slice(raw, i + 8, i + 8 + Len(v)) = v
    /\ Ch(raw, i + 8 + Len(v)) = Q

\* the offsets of the sub-nodes with this keyword
SubNodes(raw, keyword) ==
    {i \in 0..(Len(raw) - 1) : Ch(raw, i) = "(" /\ Ch(raw, i + 1) = keyword}

Min(S) == CHOOSE i \in S : \A j \in S : i <= j

Max(S) == CHOOSE i \in S : \A j \in S : i >= j

\* the block after the last call's second upsert
NewBlock == components[hist.idx].raw_content

\* the last call made its first upsert, and its second
LcscDone == hist.op \in {"update", "raise"}
UrlDone == hist.op \in {"update", "raise"} /\ ~hist.mid.raise

\* new is old with one node of that name and value, and no other sub-node,
\* put in at offset at
NodeInsertedAt(old, new, at, name, value) ==
    /\ Len(new) > Len(old)
    /\ Slice(new, 0, at) = Slice(old, 0, at)
    /\ Slice(new, at + Len(new) - Len(old), Len(new)) = Slice(old, at, Len(old))
    /\ \E i \in at..(at + Len(new) - Len(old) - 1) :
           /\ \A j \in at..(i - 1) : IsWs(Ch(new, j))
           /\ NodeAt(new, name, i)
           /\ HasValueAt(new, i, value)
           /\ Ch(new, at + Len(new) - Len(old) - 1) = ")"
           /\ \A j \in (i + 1)..(at + Len(new) - Len(old) - 1) :
                  Ch(new, j) = "(" =>
                      Ch(new, j + 1) \notin {"property", "pin", "instances"}

\* C9 holds of the upsert that made new of old: with a pin sub-node at P,
\* an instances sub-node behind it and no node of that name, the node is
\* put in before P with nothing but the pin's indentation between them, and
\* the block from there on is as it was
BeforePin(old, new, name, value) ==
    (/\ Nodes(old, name) = {}
     /\ SubNodes(old, "pin") # {}
     /\ \E q \in SubNodes(old, "instances") : q > Min(SubNodes(old, "pin")))
    => \E at \in 0..Min(SubNodes(old, "pin")) :
           /\ \A j \in at..(Min(SubNodes(old, "pin")) - 1) : IsWs(Ch(old, j))
           /\ NodeInsertedAt(old, new, at, name, value)

\* C9: when a block has a pin sub-node at P and an instances sub-node at
\* Q > P and lacks the attribute, the upsert inserts the new node entirely
\* before P, immediately before the pin node, and leaves the pin and
\* instances nodes and all that follows unchanged.
C9_InsertedBeforePin ==
    /\ LcscDone =>
           /\ Nodes(Target.raw_content, "LCSC") = {} => ~hist.mid.raise
           /\ ~hist.mid.raise =>
                  BeforePin(Target.raw_content, hist.mid.text, "LCSC", hist.lcsc)
    /\ UrlDone =>
           /\ Nodes(hist.mid.text, "URL") = {} => hist.op = "update"
           /\ hist.op = "update" =>
                  BeforePin(hist.mid.text, NewBlock, "URL", hist.url)

\* both upserts of a call synthesized a node in a block with a pin and an
\* instances sub-node
C9_Witness ==
    /\ hist.op = "update"
    /\ Nodes(Target.raw_content, "LCSC") = {}
    /\ Nodes(hist.mid.text, "URL") = {}
    /\ SubNodes(Target.raw_content, "pin") # {}
    /\ \E q \in SubNodes(Target.raw_content, "instances") :
           q > Min(SubNodes(Target.raw_content, "pin"))

\* the block has no node of that name, no pin and no instances sub-node
NoAnchor(raw, name) ==
    /\ Nodes(raw, name) = {}
    /\ SubNodes(raw, "pin") = {}
    /\ SubNodes(raw, "instances") = {}

\* C4 as claimed: when the attribute is absent and the block has neither a
\* pin nor an instances sub-node, the upsert fails, and the buffer and the
\* records are as before the call.
C4_FailsWithoutAnchor ==
    (LcscDone /\ NoAnchor(Target.raw_content, "LCSC"))
    => /\ hist.op = "raise"
       /\ content = hist.pre_content
       /\ components = hist.pre_components

\* new is old with the node put in, indented by two tabs, just before the
\* closing parenthesis that ends the block
BeforeClosing(old, new, name, value) ==
    NoAnchor(old, name)
    => /\ Ch(old, Len(old) - 1) = ")"
       /\ NodeInsertedAt(old, new, Len(old) - 1, name, value)
       /\ Slice(new, Len(old) - 1, Len(old) + 2) = <<NL, TAB, TAB>>

\* C4, amended: when the attribute is absent and the block has neither a
\* pin nor an instances sub-node, the upsert does not fail: it inserts the
\* new node, indented by two tabs, immediately before the closing
\* parenthesis that ends the block.
C4_FallsBackToBlockEnd ==
    /\ LcscDone =>
           /\ NoAnchor(Target.raw_content, "LCSC") => ~hist.mid.raise
           /\ ~hist.mid.raise =>
                  BeforeClosing(Target.raw_content, hist.mid.text, "LCSC",
                                hist.lcsc)
    /\ UrlDone =>
           /\ NoAnchor(hist.mid.text, "URL") => hist.op = "update"
           /\ hist.op = "update" =>
                  BeforeClosing(hist.mid.text, NewBlock, "URL", hist.url)

\* both upserts of a call synthesized a node in a block without a pin and
\* without an instances sub-node
C4_Witness ==
    /\ hist.op = "update"
    /\ NoAnchor(Target.raw_content, "LCSC")
    /\ NoAnchor(hist.mid.text, "URL")

\* the two upserts of update_component made in the other order: URL, then
\* LCSC on what that gave
UrlThenLcsc(raw, lcsc, url) ==
    IF UpdateProperty(raw, "URL", url).raise THEN Raise
    ELSE UpdateProperty(UpdateProperty(raw, "URL", url).text, "LCSC", lcsc)

\* the buffer that splicing this block in place of the target's would give
BufferWith(block) ==
    Slice(hist.pre_content, 0, Target.start_pos) \o block
        \o Slice(hist.pre_content, Target.end_pos + 1, Len(hist.pre_content))

\* the other order ends as the last call did: with the same error, or with
\* the same buffer
SameInOtherOrder ==
    IF hist.op = "raise"
    THEN UrlThenLcsc(Target.raw_content, hist.lcsc, hist.url).raise
    ELSE /\ ~UrlThenLcsc(Target.raw_content, hist.lcsc, hist.url).raise
         /\ content
              = BufferWith(UrlThenLcsc(Target.raw_content, hist.lcsc, hist.url).text)

\* C5 as claimed: for any record, the LCSC and the URL upsert give the same
\* final buffer in either order, also when both attributes are absent and
\* both are synthesized.
C5_EitherOrderSameBuffer == LcscDone => SameInOtherOrder

\* C5, amended: for a record whose block already holds at least one of the
\* two attributes, the LCSC and the URL upsert give the same final buffer
\* in either order.
C5_EitherOrderWhenOnePresent ==
    (/\ LcscDone
     /\ Nodes(Target.raw_content, "LCSC") \cup Nodes(Target.raw_content, "URL") # {})
    => SameInOtherOrder

\* an update that replaced the value of LCSC and synthesized URL
C5_Witness ==
    /\ hist.op = "update"
    /\ Nodes(Target.raw_content, "LCSC") # {}
    /\ Nodes(Target.raw_content, "URL") = {}
    /\ Nodes(NewBlock, "URL") # {}

\* raw with the value of its first node of that name replaced by v
WithValue(raw, name, v) ==
    Slice(raw, 0, Min(Nodes(raw, name)) + 8) \o v
        \o Slice(raw, Find(raw, Q, Min(Nodes(raw, name)) + 8), Len(raw))

\* C10: when the block already has a node with the name, the upsert changes
\* only the quoted value of that node, every other byte of the block is
\* untouched, and the new value appears literally as given.
C10_OnlyValueReplaced ==
    /\ (LcscDone /\ Nodes(Target.raw_content, "LCSC") # {})
       => /\ ~hist.mid.raise
          /\ hist.mid.text = WithValue(Target.raw_content, "LCSC", hist.lcsc)
    /\ (UrlDone /\ Nodes(hist.mid.text, "URL") # {})
       => /\ hist.op = "update"
          /\ NewBlock = WithValue(hist.mid.text, "URL", hist.url)

\* C6: upserting the same name and value twice in a row on a record that
\* lacks it gives a block with exactly one node of that name, with that
\* value; the second upsert adds no node and changes nothing (delta = 0).
\* Stated of the blocks that parse tracks.
C6_SecondUpsertChangesNothing ==
    hist.op = "parse" =>
        \A j \in 1..Len(components), v \in LcscValues :
            Nodes(components[j].raw_content, "LCSC") = {} =>
                LET once == UpdateProperty(components[j].raw_content, "LCSC", v)
                    twice == UpdateProperty(once.text, "LCSC", v)
                IN  /\ ~once.raise
                    /\ ~twice.raise
                    /\ twice.text = once.text
                    /\ Cardinality(Nodes(twice.text, "LCSC")) = 1
                    /\ \A i \in Nodes(twice.text, "LCSC") :
                           HasValueAt(twice.text, i, v)

\* C7: after update_component(R, lcsc, url), extracting the records again
\* from the buffer gives, at R's position, a record with the new LCSC and
\* URL and, at the position of every other tracked record, one with the
\* attribute values that record had before the update.
C7_ReextractedValues ==
    hist.op = "update" =>
        LET again == ParseAll(content)
        IN  \A j \in 1..Len(components) :
                \E i \in 1..Len(again) :
                    /\ again[i].start_pos = components[j].start_pos
                    /\ again[i].reference = hist.pre_components[j].reference
                    /\ again[i].value = hist.pre_components[j].value
                    /\ again[i].footprint = hist.pre_components[j].footprint
                    /\ again[i].lcsc = (IF j = hist.idx THEN hist.lcsc
                                        ELSE hist.pre_components[j].lcsc)
                    /\ again[i].url = (IF j = hist.idx THEN hist.url
                                       ELSE hist.pre_components[j].url)

(***************************************************************************)
(* The nesting of a buffer, read off the whole buffer at once: the quotes  *)
(* that open or close quoted text, and the parentheses outside of it.      *)
(***************************************************************************)
\* the number of backslashes that come just before offset i
BackslashesBefore(s, i) ==
    i - 1 - LastOr(0, i - 1, LAMBDA j : Ch(s, j) # BS)

\* the unescaped double quotes from start on: a backslash that is itself
\* escaped does not escape the quote after it
Toggles(s, start) ==
    {j \in start..(Len(s) - 1) :
        Ch(s, j) = Q /\ BackslashesBefore(s, j) % 2 = 0}

OutsideQuotes(T, i) == Cardinality({j \in T : j < i}) % 2 = 0

\* the offsets from start on where c stands outside quoted text
Outside(s, start, T, c) ==
    {j \in start..(Len(s) - 1) :
        Ch(s, j) = c /\ OutsideQuotes(T, j)}

DepthAfter(opening, closing, i) ==
    Cardinality({j \in opening : j <= i}) - Cardinality({j \in closing : j <= i})

ClosingOf(opening, closing) ==
    IF \E i \in closing : DepthAfter(opening, closing, i) = 0
    THEN Min({i \in closing : DepthAfter(opening, closing, i) = 0})
    ELSE -1

MatchingClose(s, start, T) ==
    ClosingOf(Outside(s, start, T, "("), Outside(s, start, T, ")"))

\* C11: _find_matching_paren(start), with start at an opening parenthesis,
\* returns the offset of the closing parenthesis that brings the nesting
\* depth back to zero, counting only the parentheses outside quoted text,
\* where each unescaped double quote toggles quoted text (a quote after an
\* escaped backslash toggles too); it returns -1 exactly when the buffer
\* ends before the depth is back to zero.  Stated of the symbol openers of
\* the buffers that parse reads.
C11_MatchingParen ==
    hist.op = "parse" =>
        \A start \in SubNodes(content, "symbol") :
            FindMatchingParen(content, start)
                = MatchingClose(content, start, Toggles(content, start))

\* the block of a tracked record, as the buffer holds it
BlockOf(c) == Slice(content, c.start_pos, c.end_pos + 1)

\* the lib_id that a block opens with
LibOf(raw) == Slice(raw, 7, Find(raw, Q, 7))

\* the block belongs to the non-physical category
NonPhysical(raw) ==
    \/ Ch(LibOf(raw), 0) = "power:"
    \/ \E i \in 1..Len(LibOf(raw)) : LibOf(raw)[i] = ":PWR_"

\* the block's Reference (the last node with that name) is missing, empty
\* or starts with '#'
NoReference(raw) ==
    \/ Nodes(raw, "Reference") = {}
    \/ Ch(raw, Max(Nodes(raw, "Reference") \cup {0}) + 8) \in {Q, "#"}

\* C12: a block is never in the Record Set if its Reference is absent or
\* empty, if its Reference starts with '#', or if its lib_id is of the
\* non-physical category (starts with "power:" or contains ":PWR_"), even
\* with a valid Reference; so no update is ever applied to such a block.
C12_HiddenBlocksNotTracked ==
    /\ \A j \in 1..Len(components) :
           /\ ~NonPhysical(BlockOf(components[j]))
           /\ ~NoReference(BlockOf(components[j]))
    /\ hist.op \in {"update", "raise"} =>
           /\ ~NonPhysical(Target.raw_content)
           /\ ~NoReference(Target.raw_content)

\* an update in a buffer that holds, after the tracked record, a power
\* symbol and a power flag that both have an ordinary Reference
C12_Witness ==
    /\ hist.op = "update"
    /\ Len(components) = 1
    /\ \E i, j \in SubNodes(content, "symbol") :
           /\ components[1].end_pos < i /\ i < j
           /\ Ch(content, i + 7) = "power:"
           /\ Ch(content, j + 8) = ":PWR_"
           /\ \E n \in Nodes(content, "Reference") :
                  i < n /\ n < j /\ Ch(content, n + 8) = "P6"
           /\ \E n \in Nodes(content, "Reference") :
                  j < n /\ Ch(content, n + 8) = "F7"

\* the candidate block openers of the buffer: (symbol (lib_id "
Openers ==
    {i \in SubNodes(content, "symbol") :
        Ch(content, i + 3) = "(" /\ Ch(content, i + 4) = "lib_id"
            /\ Ch(content, i + 6) = Q}

\* the opener at j lies in no block that starts at an earlier opener
TopLevel(j) ==
    \A k \in Openers : k < j => FindMatchingParen(content, k) < j

\* the opener at j starts a well-formed record block, which ends at e
RecordBlock(j, e) ==
    /\ e # -1
    /\ ~NonPhysical(Slice(content, j, e + 1))
    /\ ~NoReference(Slice(content, j, e + 1))

\* C13: when a candidate block opener has no matching closing delimiter,
\* extraction skips that candidate only and goes on from the next
\* position: every well-formed record block whose opener comes after it is
\* still extracted.
C13_LaterBlocksExtracted ==
    hist.op = "parse" =>
        \A i, j \in Openers :
            (/\ i < j
             /\ FindMatchingParen(content, i) = -1
             /\ TopLevel(j)
             /\ RecordBlock(j, FindMatchingParen(content, j)))
            => \E n \in 1..Len(components) :
                   /\ components[n].start_pos = j
                   /\ components[n].end_pos = FindMatchingParen(content, j)

\* a buffer with two records tracked after an opener that is never closed
C13_Witness ==
    /\ hist.op = "parse"
    /\ Len(components) = 2
    /\ \E i \in Openers :
           /\ FindMatchingParen(content, i) = -1
           /\ i < components[1].start_pos

\* C14: after a successful upsert of the attribute N with the value V on
\* the record R, R's attribute mapping reports V for N, in agreement with
\* R's dedicated fields, raw text and end offset; no derived field of R is
\* left with its value of before the update.
C14_MappingReportsValue ==
    hist.op = "update" =>
        /\ components[hist.idx].lcsc = hist.lcsc
        /\ components[hist.idx].url = hist.url
        /\ Get(components[hist.idx].properties, <<"LCSC">>) = hist.lcsc
        /\ Get(components[hist.idx].properties, <<"URL">>) = hist.url

(***************************************************************************)
(* Two update_component calls in a row, on two records.                    *)
(***************************************************************************)
\* the buffer and the records before the first of the two calls
Original == hist.prev.pre_content
Tracked == hist.prev.pre_components

TwoUpdates ==
    /\ hist.op = "update"
    /\ hist.prev.op = "update"
    /\ hist.prev.idx # hist.idx

\* the buffer with the block of the record a (the one nearer to the start)
\* replaced by new_a and the block of the record b replaced by new_b
BothReplaced(buf, a, new_a, b, new_b) ==
    Slice(buf, 0, a.start_pos) \o new_a
        \o Slice(buf, a.end_pos + 1, b.start_pos) \o new_b
        \o Slice(buf, b.end_pos + 1, Len(buf))

\* the same for the records i and k of the list, in either order
BlocksReplaced(buf, comps, i, new_i, k, new_k) ==
    IF comps[i].start_pos < comps[k].start_pos
    THEN BothReplaced(buf, comps[i], new_i, comps[k], new_k)
    ELSE BothReplaced(buf, comps[k], new_k, comps[i], new_i)

\* a block patched by itself
PatchedAlone(raw, lcsc, url) == UpdateUrl(UpdateLcsc(raw, lcsc), url)

\* update_component on the k-th of the records comps of the buffer buf
CallWith(buf, comps, k, lcsc, url, new) ==
    [content |-> Splice(buf, comps[k], new.text),
     components |-> UpdatedComponents(comps, k, new.text, lcsc, url)]

Call(st, k, lcsc, url) ==
    CallWith(st.content, st.components, k, lcsc, url,
             PatchedAlone(st.components[k].raw_content, lcsc, url))

\* the two calls made the other way round, from the same buffer
OtherOrder ==
    Call(Call([content |-> Original, components |-> Tracked],
              hist.idx, hist.lcsc, hist.url),
         hist.prev.idx, hist.prev.lcsc, hist.prev.url)

\* C15: for two tracked records R1 and R2, R2 after R1 in the buffer,
\* upserting R1 (which grows by delta) and then R2 at its shifted offsets
\* edits R2's own block only; the final buffer is the original one with
\* each block replaced by its own patched block, and it is the same
\* whichever of R1 and R2 is upserted first.
C15_TwoRecordsEitherOrder ==
    TwoUpdates =>
        /\ Slice(hist.pre_content, Target.start_pos, Target.end_pos + 1)
               = Tracked[hist.idx].raw_content
        /\ content = Slice(hist.pre_content, 0, Target.start_pos)
               \o NewBlock
               \o Slice(hist.pre_content, Target.end_pos + 1,
                        Len(hist.pre_content))
        /\ NewBlock
               = PatchedAlone(Tracked[hist.idx].raw_content,
                              hist.lcsc, hist.url).text
        /\ content
               = BlocksReplaced(Original, Tracked,
                     hist.prev.idx, components[hist.prev.idx].raw_content,
                     hist.idx, NewBlock)
        /\ content = OtherOrder.content

\* R1 was upserted and grew, then R2, which comes after it
C15_Witness ==
    /\ TwoUpdates
    /\ hist.prev.idx < hist.idx
    /\ Len(hist.pre_content) > Len(Original)
    /\ Delta > 0

\* C16: extraction is idempotent: parse run twice on a buffer that was not
\* modified in between gives the same Record Set both times (the same
\* records in the same order, with the same offsets, raw text and attribute
\* values).
C16_ParseTwiceSameRecords ==
    (hist.op = "parse" /\ hist.prev.op = "parse") =>
        /\ content = hist.pre_content
        /\ components = hist.pre_components

\* parse was run twice in a row on a file with two records or more
C16_Witness ==
    /\ hist.op = "parse"
    /\ hist.prev.op = "parse"
    /\ Len(components) >= 2

\* C17: the Record Set is in the order of the buffer: parse produces the
\* records with strictly increasing start_pos, and every sequence of
\* update_component calls keeps that order.
C17_OrderedByStartPos ==
    \A j \in 1..(Len(components) - 1) :
        components[j].start_pos < components[j + 1].start_pos

\* two update_component calls were made, the last one changed the length of
\* the block of a record that another one follows
C17_Witness ==
    /\ hist.op = "update"
    /\ nupdates = 2
    /\ hist.idx < Len(components)
    /\ Delta # 0

(***************************************************************************)
(* Properties of a run of fix_lcsc.py.                                     *)
(***************************************************************************)
\* the orders in which n things can be put
Orders(n) ==
    {f \in [1..n -> 1..n] : \A i, j \in 1..n : f[i] = f[j] => i = j}

\* the modifications ms taken in the order f go from the start of the
\* buffer to its end
FromStartToEnd(ms, f) ==
    \A i \in 1..(Len(ms) - 1) :
        ms[f[i]].insert_pos <= ms[f[i + 1]].insert_pos

\* the original buffer from offset at on, with the texts of the
\* modifications ms, from the i-th in the order f on, each put in at its
\* insert_pos
RECURSIVE WithTexts(_, _, _, _, _)
WithTexts(orig, at, ms, f, i) ==
    IF i > Len(ms) THEN Slice(orig, at, Len(orig))
    ELSE Slice(orig, at, ms[f[i]].insert_pos) \o ms[f[i]].new_props
             \o WithTexts(orig, ms[f[i]].insert_pos, ms, f, i + 1)

\* C18: the batch planner applies its (insertion_offset, text) pairs, all
\* computed against the original buffer, in descending order of offset, so
\* that when a pair is applied its offset still designates the same
\* original position: the final buffer is the original one with every text
\* inserted at the position computed for it, and no original byte lost or
\* moved.
C18_InsertedAtOriginalPositions ==
    /\ batch.pc = "apply" =>
           \A i \in (batch.applied + 1)..Len(batch.modifications) :
               /\ \A j \in 1..(i - 1) :
                      batch.modifications[j].insert_pos
                          >= batch.modifications[i].insert_pos
               /\ Slice(batch.content, 0, batch.modifications[i].insert_pos)
                      = Slice(batch.original, 0,
                              batch.modifications[i].insert_pos)
    /\ batch.pc = "done" =>
           /\ file = batch.content
           /\ \E f \in Orders(Len(batch.modifications)) :
                  /\ FromStartToEnd(batch.modifications, f)
                  /\ batch.content
                         = WithTexts(batch.original, 0,
                                     batch.modifications, f, 1)

\* a run that planned two insertions, the one nearer to the start first,
\* and applied both
C18_Witness ==
    /\ batch.pc = "done"
    /\ Len(batch.modifications) = 2
    /\ batch.modifications[1].insert_pos > batch.modifications[2].insert_pos
    /\ batch.modifications[1].ref = <<"R2">>
    /\ batch.modifications[2].ref = <<"R1">>

\* the record is one that the table of fix_lcsc.py has an identifier for
IsTarget(c) == c.reference \in DOMAIN LCSC_DATA

\* update_component on each target among the records from the k-th on,
\* with the identifier of the table
RECURSIVE PerRecordFrom(_, _)
PerRecordFrom(st, k) ==
    IF k > Len(st.components) THEN st
    ELSE IF IsTarget(st.components[k])
         THEN PerRecordFrom(
                  Call(st, k, LCSC_DATA[st.components[k].reference],
                       ProductUrl(LCSC_DATA[st.components[k].reference])),
                  k + 1)
    ELSE PerRecordFrom(st, k + 1)

PerRecord(buf) ==
    PerRecordFrom([content |-> buf, components |-> ParseAll(buf)], 1)

\* the buffer has a target record, and no target record has an LCSC or a
\* URL attribute
TargetsNotLinked(comps) ==
    /\ \E k \in 1..Len(comps) : IsTarget(comps[k])
    /\ \A k \in 1..Len(comps) :
           IsTarget(comps[k]) =>
               /\ Nodes(comps[k].raw_content, "LCSC") = {}
               /\ Nodes(comps[k].raw_content, "URL") = {}

\* C19: for a buffer in which no target record already has an LCSC or a
\* URL attribute, the batch insertion path (add_lcsc_properties) gives the
\* same final buffer as the per-record patcher (update_component) applied
\* to the same records with the same values.
C19_BatchSameAsPerRecord ==
    (batch.pc = "done" /\ TargetsNotLinked(ParseAll(batch.original))) =>
        batch.content = PerRecord(batch.original).content

\* an identifier: C, then one digit or more
IsIdentifier(v) == Ch(v, 0) = "C" /\ IsDigit(Tail(v))

\* C20: at every selection surface (the prompt of the command line and the
\* dialog), an identifier typed by hand is accepted and returned to the
\* core only if it is 'C' followed by one or more digits; any other input
\* is rejected and never reaches update_component.
\* Stated of the identifiers that update_component is called with.
C20_OnlyIdentifiersAccepted ==
    hist.op \in {"update", "raise"} => IsIdentifier(hist.lcsc)

\* C22: update_component(R, ...) never changes R.start_pos: the start of a
\* record is changed only by an update of another record that comes before
\* it, while R's own end_pos becomes start_pos + len(new_block) - 1.
C22_OwnStartKept ==
    hist.op = "update" =>
        /\ components[hist.idx].start_pos = Target.start_pos
        /\ components[hist.idx].end_pos
               = Target.start_pos + Len(NewBlock) - 1
        /\ \A j \in 1..Len(components) :
               components[j].start_pos # hist.pre_components[j].start_pos
                   => /\ j # hist.idx
                      /\ Target.start_pos < hist.pre_components[j].start_pos

\* an update that changed the length of the block of a record that is not
\* the last one, and so moved the start of another
C22_Witness ==
    /\ hist.op = "update"
    /\ Delta # 0
    /\ \E j \in 1..Len(components) :
           components[j].start_pos # hist.pre_components[j].start_pos

\* C23: when a block holds several attribute nodes with the same name,
\* extraction keeps exactly one entry for that name in the attribute
\* mapping, with the value of the last such node of the block.
C23_LastNodeWins ==
    hist.op = "parse" =>
        \A j \in 1..Len(components) :
            \A name \in DOMAIN components[j].properties :
                Cardinality(Nodes(components[j].raw_content, name[1])) >= 2
                    => HasValueAt(components[j].raw_content,
                           Max(Nodes(components[j].raw_content, name[1])),
                           components[j].properties[name])

\* the position hint of the node at offset i of raw: what stands between
\* its (at and the parenthesis that closes it
Hint(raw, i) ==
    Slice(raw, Find(raw, "at", i) + 2, Find(raw, ")", Find(raw, "at", i)))

\* what follows the position hint of the node at offset i, white space left
\* out
AfterHint(raw, i) ==
    Slice(raw, WsEnd(raw, Find(raw, ")", Find(raw, "at", i)) + 1), Len(raw))

\* (effects (font (size 1.27 1.27)) hide)
HiddenDefaultFont ==
    <<"(", "effects", SP, "(", "font", SP, "(", "size", SP, "1.27", SP, "1.27",
      ")", ")", SP, "hide", ")">>

\* the upsert that made new of old synthesized a node with this name, which
\* has the hint of old's Reference node and the hidden rendering after it
SynthesizedWithHint(old, new, name) ==
    /\ Hint(new, Min(Nodes(new, name) \cup {Len(new)}))
           = Hint(old, Max(Nodes(old, "Reference") \cup {0}))
    /\ Slice(AfterHint(new, Min(Nodes(new, name) \cup {Len(new)})),
             0, Len(HiddenDefaultFont)) = HiddenDefaultFont

Plain(v) == \A i \in 1..Len(v) : v[i] \notin {Q, BS, "(", ")"}

\* what extraction tells of where a record is
Place(c) ==
    [start_pos |-> c.start_pos, end_pos |-> c.end_pos,
     raw_content |-> c.raw_content]

Places(comps) == [j \in 1..Len(comps) |-> Place(comps[j])]

\* C26: after parse() and then update_component calls with values that have
\* no double quote, backslash or parenthesis (here: the first such call
\* after a parse), a fresh extraction from the current buffer gives the same
\* number of records, with exactly the (start_pos, end_pos, raw_content) of
\* the tracked records, in the same order.
C26_FreshExtractionAgrees ==
    (/\ hist.op = "update"
     /\ hist.prev.op = "parse"
     /\ Plain(hist.lcsc) /\ Plain(hist.url))
    => Places(ParseAll(content)) = Places(components)

\* the records of the buffer that fix_lcsc.py read
BatchRecords == ParseAll(batch.original)

\* the record is in the table and its block has an LCSC node
LinkedTarget(c) == IsTarget(c) /\ Nodes(c.raw_content, "LCSC") # {}

\* the record c is among the records comps, with as many LCSC nodes and the
\* same LCSC value as c has
KeptIn(comps, c) ==
    /\ \E j \in 1..Len(comps) : comps[j].reference = c.reference
    /\ \A j \in 1..Len(comps) :
           comps[j].reference = c.reference =>
               /\ Cardinality(Nodes(comps[j].raw_content, "LCSC"))
                      = Cardinality(Nodes(c.raw_content, "LCSC"))
               /\ comps[j].lcsc = c.lcsc

\* no modification is planned for c, nor at an offset inside its block
NotPlanned(modifications, c) ==
    \A i \in 1..Len(modifications) :
        /\ modifications[i].ref # c.reference
        /\ ~(c.start_pos <= modifications[i].insert_pos
                /\ modifications[i].insert_pos <= c.end_pos)

InsertOnly(records) ==
    \A k \in 1..Len(records) :
        LinkedTarget(records[k]) =>
            /\ NotPlanned(batch.modifications, records[k])
            /\ batch.pc = "done" => KeptIn(ParseAll(batch.content), records[k])

InOwnBlock(records, m) ==
    \E k \in 1..Len(records) :
        /\ records[k].reference = m.ref
        /\ records[k].start_pos < m.insert_pos
        /\ m.insert_pos <= records[k].end_pos

\* two modifications with the same offset, or with offsets in one block
SameTarget(records, m, n) ==
    \/ m.insert_pos = n.insert_pos
    \/ \E k \in 1..Len(records) :
           /\ records[k].start_pos < m.insert_pos
           /\ m.insert_pos <= records[k].end_pos
           /\ records[k].start_pos < n.insert_pos
           /\ n.insert_pos <= records[k].end_pos

OwnBlocks(records, modifications) ==
    /\ \A i \in 1..Len(modifications) : InOwnBlock(records, modifications[i])
    /\ \A i, j \in 1..Len(modifications) :
           i # j => ~SameTarget(records, modifications[i], modifications[j])

\* C27: in the batch path the insertion offset planned for a matched record
\* lies inside that record's own block, between its opener and its matching
\* closing parenthesis, also when the record has no pin and no instances
\* node and a later block has one; no two planned insertions have the same
\* target block or the same offset.
C27_InsertionInOwnBlock ==
    batch.pc \in {"scan", "apply", "done"} =>
        OwnBlocks(BatchRecords, batch.modifications)

\* the response is a transport failure, or a response that is no success
IsFailure(resp) ==
    \/ resp.kind = "exception"
    \/ resp.kind = "response" /\ resp.status_code >= 400

\* the response is a success whose result code is not 200
IsRefusal(resp) ==
    /\ resp.kind = "response" /\ resp.status_code = 200
    /\ resp.body = "json" /\ resp.code # 200

SearchDone == search.pc \in {"returned", "raised"}

\* what the call did with the last response it got
AfterLast(last) ==
    /\ (IsFailure(last) /\ Len(search.got) < search.retries) =>
           /\ search.pc = "loop"
           /\ search.attempt = Len(search.got)
    /\ (IsFailure(last) /\ Len(search.got) >= search.retries) =>
           /\ search.pc = "returned"
           /\ search.components = <<>>
    /\ IsRefusal(last) =>
           /\ search.pc = "returned"
           /\ search.components = <<>>

SearchBounded ==
    /\ search.posts <= search.retries
    /\ search.posts = Len(search.got)
    /\ search.got # <<>> => AfterLast(search.got[Len(search.got)])
    /\ (search.pc = "raised" /\ search.got # <<>>) =>
           ~IsFailure(search.got[Len(search.got)])
    /\ (search.pc = "raised") => search.got # <<>>

\* C21: LCSCClient.search always ends, after at most retries requests, and
\* never raises for a transport failure or a response that is no success: a
\* 403 or a request exception in a turn that is not the last one leads to
\* another turn, and in the last turn (or with a result code other than 200)
\* the call returns the empty list.
C21_SearchEndsWithoutRaising == [](SearchBounded) /\ <>(SearchDone)

C21_Witness ==
    /\ search.pc = "returned"
    /\ search.retries = MaxRetries
    /\ search.posts = search.retries
    /\ search.components = <<>>
    /\ search.got[1].kind = "exception"
    /\ search.got[2].kind = "response" /\ search.got[2].status_code = 403
    /\ search.got[3].kind = "response" /\ search.got[3].status_code = 403

\* the session is over: main returned, or sys.exit or an exception ended it
SessionOver == session.pc \in {"done", "exit", "error"}

\* nothing was changed and nothing was saved
Untouched ==
    /\ content = file
    /\ components = session.parsed
    /\ session.updates = <<>>
    /\ session.saves = 0

\* C28: in a session of the command line with --dry-run the buffer and the
\* offsets of all records are never changed and save is never called,
\* whatever is selected; without --dry-run save is called exactly once,
\* after all components are processed, if and only if at least one
\* component was updated.
C28_DryRunNeverSaves ==
    /\ (session.dry_run /\ session.pc # "parse") => Untouched
    /\ session.saves <= 1
    /\ session.saves = 1 =>
           /\ session.pc = "done"
           /\ session.i = Len(components) + 1
    /\ (~session.dry_run /\ SessionOver) =>
           (session.saves = 1 <=> session.updated_count > 0)

\* the k-th record is where it is tracked, with the text that parse gave
SameBlock(k) ==
    /\ components[k].raw_content = session.parsed[k].raw_content
    /\ Slice(content, components[k].start_pos, components[k].end_pos + 1)
           = session.parsed[k].raw_content

InSeq(x, seq) == \E j \in 1..Len(seq) : seq[j] = x

Skipped(k) ==
    /\ ~InSeq(k, session.searches)
    /\ ~InSeq(k, session.prompts)
    /\ ~InSeq(k, session.updates)
    /\ SameBlock(k)
    /\ session.saves = 1 => file = content

\* C29: in a session of the command line without --overwrite, a component
\* that already has a non-empty LCSC value is skipped: no search is issued
\* for it, no prompt is shown, update_component is never called on it, and
\* its block is the same, byte for byte, in the final buffer.
C29_ExistingSkipped ==
    (session.pc # "parse" /\ ~session.overwrite) =>
        \A k \in 1..Len(session.parsed) :
            session.parsed[k].lcsc # <<>> => Skipped(k)

C29_Witness ==
    /\ session.pc = "done"
    /\ ~session.overwrite
    /\ session.saves = 1
    /\ Len(session.parsed) = 2
    /\ session.parsed[2].lcsc # <<>>
    /\ session.updates = <<1>>
    /\ components[2].start_pos > session.parsed[2].start_pos

\* the record is where it is tracked
Consistent(c) ==
    Slice(content, c.start_pos, c.end_pos + 1) = c.raw_content

\* the k-th record is as it was when the loop started, but for its place
NotUpdated(k) ==
    /\ components[k].raw_content = session.before[k].raw_content
    /\ components[k].lcsc = session.before[k].lcsc
    /\ components[k].url = session.before[k].url

\* the k-th record has what the dialog ended with
UpdatedWith(k, result) ==
    /\ components[k].lcsc = result.selected_lcsc_id
    /\ components[k].url = result.selected_url
    /\ \E n \in Nodes(components[k].raw_content, "LCSC") :
           HasValueAt(components[k].raw_content, n, result.selected_lcsc_id)

Cancelled(i) ==
    /\ session.pc # "batch"
    /\ session.i = i
    /\ \A j \in i..Len(session.todo) : NotUpdated(session.todo[j])
    /\ \A j \in 1..(i - 1) :
           IF Applies(session.chosen[j])
           THEN UpdatedWith(session.todo[j], session.chosen[j])
           ELSE NotUpdated(session.todo[j])
    /\ \A k \in 1..Len(components) : Consistent(components[k])
    /\ Len(components) = Len(session.before)

\* C30: in the loop of the main window, Cancel All on the dialog for
\* component i stops the processing: no component at index >= i is
\* updated, and the updates already applied to the components before i
\* remain in the buffer and in the records, with consistent offsets.
C30_CancelAllStops ==
    session.cancelled_at > 0 => Cancelled(session.cancelled_at)

C30_Witness ==
    /\ session.pc = "idle"
    /\ session.after = "batch"
    /\ session.cancelled_at = 2
    /\ session.updated = 1
    /\ components[session.todo[2]].start_pos
           > session.before[session.todo[2]].start_pos

\* the update_component calls applied since the file was loaded or last
\* saved
AppliedSince == session.applied

\* the calls applied before the batch run that is under way
AppliedBeforeRun == session.applied - session.updated

\* a dialog of a batch run is open: the loop of line 440 waits in ShowModal
\* for the user
DialogOpen == session.pc = "batch" /\ session.i <= Len(session.todo)

\* the main window waits for the user
WindowWaits == session.pc \in {"start", "idle"}

\* C31 as stated: in the GUI the Save button is enabled if and only if at
\* least one update_component call has been applied since the last file
\* load or successful save, whenever the program waits for the user.
C31_SaveEnabledIffApplied ==
    (WindowWaits \/ DialogOpen) => (session.save_btn <=> AppliedSince > 0)

\* C31, amended: whenever the main window waits for the user, the Save
\* button is enabled if and only if at least one update_component call has
\* been applied since the last file load or successful save (or save-as);
\* while a dialog of a batch run is open the button is as it was when the
\* run began, whatever the run has applied so far.
C31_SaveEnabledOutsideRun ==
    /\ WindowWaits => (session.save_btn <=> AppliedSince > 0)
    /\ DialogOpen => (session.save_btn <=> AppliedBeforeRun > 0)

\* a batch run that skipped one component and updated another has ended
\* and enabled the button, which was disabled during the run
C31_Witness ==
    /\ session.pc = "idle"
    /\ session.after = "batch"
    /\ session.updated > 0
    /\ session.skipped > 0
    /\ session.applied = session.updated
    /\ session.save_btn

====
